---- MODULE Spec2Model ----
(***************************************************************************)
(* legal-reference-api.  Federated legal search: the nine source adapters  *)
(* (app/routers/search/*.py), the UniCourt token cache and the combined    *)
(* search endpoint that fans a query out to the enabled adapters.  The AI  *)
(* services: the chunker and the content cleaner (app/services/ai.py), the  *)
(* chat endpoint (app/routers/ai/chat.py) and the embeddings endpoint      *)
(* (app/routers/ai/embed.py).  The synchronous crawl                       *)
(* (app/routers/documents/crawl.py).                                       *)
(*                                                                         *)
(* Text is modelled by TLA+ strings (Len, \o and SubSeq act on them as on  *)
(* Python str).  An optional value (a JSON field the provider may omit, a  *)
(* Python None) is a sequence of length 0 or 1.                            *)
(*                                                                         *)
(* Each subsystem has its own specification: Spec (search), TokenSpec and  *)
(* RaceSpec (concurrent get_access_token calls), ChunkSpec (chunk_text),   *)
(* CleanSpec (clean_content), ChatSpec and ChatFairSpec (the chat          *)
(* endpoint), EmbedSpec (generate_resource_embeddings) and CrawlSpec        *)
(* (crawl_sync).  The variables of the other subsystems stay at their      *)
(* initial values.                                                         *)
(***************************************************************************)
EXTENDS Integers, Sequences, FiniteSets, TLC

VARIABLES
    settings,      \* the credentials that get_settings() finds configured
    cached_token,  \* unicourt._cached_token
    token_expiry,  \* unicourt._token_expiry
    now,           \* time.time()
    mode,          \* the endpoint serving the request, and how far it is
    request,       \* the request being served
    task,          \* per source: where its adapter call stands
    out,           \* per source: what its adapter call returned or raised
    nsent,         \* per source: HTTP requests sent to the provider
    answered,      \* per source: the provider's last answer
    response,      \* the CombinedSearchResponse
    call,          \* per caller of get_access_token: where the call stands
    issued,        \* tokens the provider has issued so far
    refreshes,     \* the refreshes completed (caller, token obtained), oldest first
    text,          \* chunk_text: its argument text
    chunk_size,    \* chunk_text: its argument chunk_size
    overlap,       \* chunk_text: its argument overlap
    start,         \* chunk_text: the window start
    chunks,        \* chunk_text: the chunks emitted so far, then returned
    windows,       \* chunk_text: the windows cut so far, as (start, end)
    chunk_pc,      \* chunk_text: not called, in the loop, returned, or
                   \* looping for ever
    original_content,  \* clean_content: the text given to it
    options,           \* clean_content: its options
    cleaned_content,   \* clean_content: what it returned
    recleaned_content, \* clean_content applied to cleaned_content
    clean_pc,          \* how many times clean_content has been applied
    chat_request,      \* chat: the ChatRequest being served
    chat_pc,           \* chat: the external call it is about to make
    lr_resources,      \* the rows of table lr_resources
    matched,           \* chat: what the vector lookup returned
    search_results,    \* chat: search_results
    resources,         \* chat: resources
    chat_log,          \* chat: the external calls made, oldest first
    lr_chat_messages,  \* the rows of table lr_chat_messages
    chat_response,     \* chat: the ChatResponse returned
    embed_request,     \* generate_resource_embeddings: the EmbedRequest
    embed_pc,          \* the external call it is about to make
    embed_idx,         \* the position in ids of the resource in process
    embed_chunks,      \* chunks of the resource in process
    embed_results,     \* results
    lr_embeddings,     \* the rows of table lr_embeddings
    embeddings_before, \* lr_embeddings as the request found it
    embed_response,    \* the EmbedResponse returned
    timeout_seconds,   \* crawl_sync: its argument timeout_seconds
    crawl_pc,          \* crawl_sync: the call it is about to make
    start_result,      \* crawl_sync: what start_crawl returned
    polled,            \* what the calls of get_crawl_status returned,
                       \* oldest first
    polls,             \* iterations of the polling loop so far
    crawl_response     \* the CrawlResponse crawl_sync returned

cacheVars == <<settings, cached_token, token_expiry, now>>

searchVars == <<mode, request, task, out, nsent, answered, response>>

tokenVars == <<call, issued, refreshes>>

chunkVars == <<text, chunk_size, overlap, start, chunks, windows, chunk_pc>>

\* the variables of app/services/ai.py and app/routers/ai
cleanVars == <<original_content, options, cleaned_content,
               recleaned_content, clean_pc>>

chatVars == <<chat_request, chat_pc, lr_resources, matched, search_results,
              resources, chat_log, lr_chat_messages, chat_response>>

\* the variables of app/routers/ai/embed.py
embedVars == <<embed_request, embed_pc, embed_idx, embed_chunks,
               embed_results, lr_embeddings, embeddings_before,
               embed_response>>

\* the variables of app/routers/documents/crawl.py
crawlVars == <<timeout_seconds, crawl_pc, start_result, polled, polls,
               crawl_response>>

jobVars == <<embedVars, crawlVars>>

aiVars == <<chunkVars, cleanVars, chatVars, jobVars>>

vars == <<cacheVars, searchVars, tokenVars, aiVars>>

(***************************************************************************)
(* Bounds of the model.                                                    *)
(***************************************************************************)
\* most items a provider puts in one answer
MaxItems == 2
\* most source toggles set in one combined request
MaxEnabled == 2
\* largest request.limit tried
MaxLimit == 2
\* concurrent callers of get_access_token
MaxCallers == 2
\* half days the clock advances while the callers run
MaxTicks == 2
\* most pieces a text given to chunk_text is made of
MaxPieces == 4
\* largest chunk_size given to chunk_text
MaxChunk == 9
\* most pieces a text given to clean_content is made of
MaxCleanPieces == 3
\* most chunks the vector lookup returns
MaxMatches == 2
\* the largest timeout_seconds given to crawl_sync
MaxTimeout == 5

(***************************************************************************)
(* Program constants.                                                      *)
(***************************************************************************)
SnippetMax == 300
SnippetKeep == 297
TokenTTL == 86400
\* the arguments chat passes to search_similar_chunks; a similarity is
\* counted in hundredths
MatchCount == 10
MatchThreshold == 50
\* the least length of a content that is embedded
MinContent == 50
\* crawl_sync: poll_interval, in seconds
PollInterval == 2

Sources == {"google", "youtube", "books", "openlibrary", "courtlistener",
            "congress", "federalregister", "loc", "unicourt"}

CourtListenerSearchType == {"o", "r", "oa"}

\* Python None / an omitted JSON field, and a present value
None == << >>
Some(v) == << v >>

\* dict.get(key, default)
Get(opt, default) == IF opt = None THEN default ELSE opt[1]

\* Python truthiness of an optional string: None and "" are falsy
Truthy(opt) == opt # None /\ opt[1] # ""

\* `a or b` on an optional string a and a string b
OrElse(opt, alt) == IF Truthy(opt) THEN opt[1] ELSE alt

RECURSIVE Rep(_)
Rep(n) == IF n = 0 THEN "" ELSE Rep(n - 1) \o "a"

RECURSIVE Join(_, _)
\* sep.join(parts)
Join(sep, parts) ==
    IF Len(parts) = 0 THEN ""
    ELSE IF Len(parts) = 1 THEN parts[1]
    ELSE parts[1] \o sep \o Join(sep, Tail(parts))

SeqsUpTo(S, n) == UNION {[1..k -> S] : k \in 0..n}

Min(a, b) == IF a < b THEN a ELSE b

\* `c in s` for a one-character string c
Contains(s, c) == \E i \in 1..Len(s) : SubSeq(s, i, i) = c

(***************************************************************************)
(* Outcomes of one adapter call: a SearchResponse that is returned, or an  *)
(* HTTPException that is raised.  Send/SendToken are the suspension points *)
(* `await client.get(...)` and `await client.post(...)`.                   *)
(***************************************************************************)
SearchResult(url, snippet) == [url |-> url, snippet |-> snippet]

SearchResponse(results, error) ==
    [kind |-> "return", results |-> results, count |-> Len(results),
     error |-> error, status_code |-> 0]

HTTPException(code) ==
    [kind |-> "raise", results |-> << >>, count |-> 0,
     error |-> None, status_code |-> code]

Send == [kind |-> "send", results |-> << >>, count |-> 0,
         error |-> None, status_code |-> 0]

SendToken == [kind |-> "send_token", results |-> << >>, count |-> 0,
              error |-> None, status_code |-> 0]

NoOutcome == [kind |-> "none", results |-> << >>, count |-> 0,
              error |-> None, status_code |-> 0]

\* if len(snippet) > 300: snippet = snippet[:297] + "..."
Truncate(snippet) ==
    IF Len(snippet) > SnippetMax
    THEN SubSeq(snippet, 1, SnippetKeep) \o "..."
    ELSE snippet

\* results = [transform(item) for item in items]
MapItems(F(_), items) == [i \in 1..Len(items) |-> F(items[i])]

(***************************************************************************)
(* google.py                                                               *)
(***************************************************************************)
google_credentials(st) ==
    "google_api_key" \in st /\ "google_search_engine_id" \in st

google_result(item) ==
    SearchResult(Get(item.link, ""), item.snippet)

search_google(req, answer) ==
    IF answer.status_code # 200
    THEN HTTPException(answer.status_code)
    ELSE SearchResponse(MapItems(google_result, answer.items), None)

(***************************************************************************)
(* youtube.py                                                              *)
(***************************************************************************)
youtube_credentials(st) == "youtube_api_key" \in st

youtube_result(item) ==
    SearchResult("https://www.youtube.com/watch?v=" \o Get(item.videoId, ""),
                 item.description)

search_youtube(req, answer) ==
    IF answer.status_code # 200
    THEN HTTPException(answer.status_code)
    ELSE SearchResponse(MapItems(youtube_result, answer.items), None)

(***************************************************************************)
(* books.py: authors is the joined author list ("" when there is none)     *)
(***************************************************************************)
books_snippet(item) ==
    LET s0 == Get(item.description, "")
        s1 == IF item.authors # "" THEN "By " \o item.authors \o ". " \o s0
              ELSE s0
        s2 == IF Truthy(item.publisher) /\ Truthy(item.publishedDate)
              THEN s1 \o " (" \o item.publisher[1] \o ", "
                      \o item.publishedDate[1] \o ")"
              ELSE s1
    IN  Truncate(s2)

books_result(item) ==
    SearchResult(OrElse(item.infoLink, OrElse(item.previewLink, "")),
                 Some(books_snippet(item)))

search_books(req, answer) ==
    IF answer.status_code # 200
    THEN HTTPException(answer.status_code)
    ELSE SearchResponse(MapItems(books_result, answer.items), None)

(***************************************************************************)
(* openlibrary.py: author_name and subject are the joined lists            *)
(***************************************************************************)
openlibrary_snippet(doc) ==
    LET s0 == IF doc.author_name # "" THEN "By " \o doc.author_name \o "."
              ELSE ""
        s1 == IF Truthy(doc.first_publish_year)
              THEN s0 \o " First published: " \o doc.first_publish_year[1] \o "."
              ELSE s0
        s2 == IF Truthy(doc.publisher)
              THEN s1 \o " Publisher: " \o doc.publisher[1] \o "."
              ELSE s1
        s3 == IF doc.subject # ""
              THEN s2 \o " Subjects: " \o doc.subject \o "."
              ELSE s2
    IN  s3

openlibrary_result(doc) ==
    LET snippet == openlibrary_snippet(doc)
    IN  SearchResult("https://openlibrary.org" \o Get(doc.key, ""),
                     Some(IF snippet # "" THEN snippet
                          ELSE "No description available"))

search_openlibrary(req, answer) ==
    IF answer.status_code # 200
    THEN HTTPException(answer.status_code)
    ELSE SearchResponse(MapItems(openlibrary_result, answer.items), None)

(***************************************************************************)
(* courtlistener.py: opinion_snippet is opinions[0].snippet                *)
(***************************************************************************)
courtlistener_snippet(item) ==
    LET s0 == Get(item.opinion_snippet, "")
        s1 == IF Truthy(item.court) THEN item.court[1] \o ". " \o s0 ELSE s0
    IN  Truncate(s1)

courtlistener_result(item) ==
    SearchResult("https://www.courtlistener.com" \o Get(item.absolute_url, ""),
                 Some(courtlistener_snippet(item)))

search_courtlistener(req, answer) ==
    IF answer.status_code # 200
    THEN HTTPException(answer.status_code)
    ELSE SearchResponse(MapItems(courtlistener_result, answer.items), None)

(***************************************************************************)
(* congress.py: latestAction and sponsor (sponsors[0]) are optional        *)
(* records; type, number and congress are read with their defaults.        *)
(***************************************************************************)
congress_snippet(item) ==
    LET s0 == Get(item.title, "")
        s1 == IF item.latestAction # None
              THEN s0 \o " Latest action (" \o item.latestAction[1].actionDate
                      \o "): " \o item.latestAction[1].text
              ELSE s0
        s2 == IF item.sponsor # None
              THEN s1 \o " Sponsor: " \o item.sponsor[1].name \o " ("
                      \o item.sponsor[1].party \o "-" \o item.sponsor[1].state
                      \o ")"
              ELSE s1
    IN  Truncate(s2)

congress_result(item) ==
    SearchResult("https://www.congress.gov/bill/" \o Get(item.congress, "118")
                     \o "th-congress/" \o OrElse(item.type, "bill") \o "/"
                     \o Get(item.number, ""),
                 Some(congress_snippet(item)))

\* every non-success status taken for a missing key
search_congress_any_status(req, answer) ==
    IF answer.status_code # 200
    THEN SearchResponse(<< >>,
             Some("Congress.gov API key required. Get one free at api.congress.gov"))
    ELSE SearchResponse(MapItems(congress_result, answer.items), None)

search_congress(req, answer) ==
    IF answer.status_code \in {401, 403}
    THEN SearchResponse(<< >>,
             Some("Congress.gov API key required. Get one free at api.congress.gov"))
    ELSE IF answer.status_code # 200
    THEN HTTPException(answer.status_code)
    ELSE SearchResponse(MapItems(congress_result, answer.items), None)

(***************************************************************************)
(* federalregister.py: agencies is the joined list of agency names, with   *)
(* has_agencies telling whether the list is non-empty.                     *)
(***************************************************************************)
federalregister_snippet(item) ==
    LET s0 == OrElse(item.abstract, OrElse(item.title, ""))
        s1 == IF item.has_agencies
              THEN "Agency: " \o item.agencies \o ". " \o s0
              ELSE s0
        s2 == IF Truthy(item.publication_date)
              THEN "Published: " \o item.publication_date[1] \o ". " \o s1
              ELSE s1
        s3 == IF Truthy(item.type) THEN "[" \o item.type[1] \o "] " \o s2
              ELSE s2
    IN  Truncate(s3)

federalregister_result(item) ==
    SearchResult(Get(item.html_url, ""), Some(federalregister_snippet(item)))

search_federalregister(req, answer) ==
    IF answer.status_code # 200
    THEN HTTPException(answer.status_code)
    ELSE SearchResponse(MapItems(federalregister_result, answer.items), None)

(***************************************************************************)
(* loc.py: description is description[0]; contributor and subject are the  *)
(* joined lists ("" when empty).                                           *)
(***************************************************************************)
loc_snippet(item) ==
    LET s0 == Get(item.description, "")
        s1 == IF item.contributor # ""
              THEN IF s0 # "" THEN s0 \o " By: " \o item.contributor \o "."
                   ELSE "By: " \o item.contributor \o "."
              ELSE s0
        s2 == IF Truthy(item.date) THEN s1 \o " Date: " \o item.date[1] \o "."
              ELSE s1
        s3 == IF item.subject # ""
              THEN s2 \o " Subjects: " \o item.subject \o "."
              ELSE s2
    IN  Truncate(s3)

loc_result(item) ==
    LET snippet == loc_snippet(item)
    IN  SearchResult(OrElse(item.url,
                            "https://www.loc.gov/item/" \o Get(item.id, "")),
                     Some(IF snippet # "" THEN snippet
                          ELSE "No description available"))

search_loc(req, answer) ==
    IF answer.status_code # 200
    THEN HTTPException(answer.status_code)
    ELSE SearchResponse(MapItems(loc_result, answer.items), None)

(***************************************************************************)
(* unicourt.py: the token cache, the query builder and the adapter.        *)
(* A request field that is None is the empty string.                       *)
(***************************************************************************)
unicourt_credentials(st) ==
    "unicourt_client_id" \in st /\ "unicourt_client_secret" \in st

\* `a or b` on two optional values
OrOpt(a, b) == IF Truthy(a) THEN a ELSE b

\* if _cached_token and _token_expiry and time.time() < _token_expiry
token_cache_valid(token, expiry, t) ==
    Truthy(token) /\ expiry # None /\ expiry[1] # 0 /\ t < expiry[1]

\* data.get("accessToken") or data.get("access_token")
token_from_body(data) == OrOpt(data.accessToken, data.access_token)

build_query(params) ==
    LET part(cond, clause) == IF cond THEN << clause >> ELSE << >>
        hasColon == Contains(params.query, ":")
        query_parts ==
            part(params.query # "" /\ hasColon, params.query)
         \o part(params.query # "" /\ ~hasColon,
                 "(caseName:(" \o params.query \o ") OR DocketEntry:("
                     \o params.query \o "))")
         \o part(params.state # "",
                 "(JurisdictionGeo:(state:(name:\"" \o params.state \o "\")))")
         \o part(params.case_type # "",
                 "(CaseType:(name:\"" \o params.case_type \o "\"))")
         \o part(params.party_name # "",
                 "(Party:(name:\"" \o params.party_name \o "\"))")
         \o part(params.attorney_name # "",
                 "(Attorney:(name:\"" \o params.attorney_name \o "\"))")
         \o part(params.judge_name # "",
                 "(Judge:(name:\"" \o params.judge_name \o "\"))")
         \o part(params.case_number # "",
                 "(caseNumber:\"" \o params.case_number \o "\")")
         \o part(params.date_from # "",
                 "(filedDate:[" \o params.date_from \o " TO *])")
         \o part(params.date_to # "",
                 "(filedDate:[* TO " \o params.date_to \o "])")
    IN  Join(" AND ", query_parts)

\* search_unicourt once get_access_token has answered, up to the search call
unicourt_after_token(req, token) ==
    IF ~Truthy(token) THEN HTTPException(401)
    ELSE IF build_query(req) = "" THEN HTTPException(400)
    ELSE Send

\* parties is ", ".join(p.name for p in parties[:3]), has_parties tells
\* whether the list is non-empty
unicourt_snippet(item) ==
    LET part(opt, label) ==
            IF Truthy(opt) THEN << label \o opt[1] >> ELSE << >>
        snippet_parts ==
            part(item.courtName, "Court: ")
         \o part(item.caseType, "Type: ")
         \o part(item.filedDate, "Filed: ")
         \o part(item.caseStatus, "Status: ")
         \o (IF item.has_parties THEN << "Parties: " \o item.parties >>
             ELSE << >>)
        s0 == IF Len(snippet_parts) > 0
              THEN Join(". ", snippet_parts) \o "." ELSE ""
    IN  Truncate(s0)

unicourt_result(item) ==
    LET snippet == unicourt_snippet(item)
    IN  SearchResult(OrElse(item.caseUrl,
                            "https://unicourt.com/case/" \o Get(item.caseId, "")),
                     Some(IF snippet # "" THEN snippet
                          ELSE "No additional details available"))

\* case_results[: request.limit]
TakeLimit(items, limit) == SubSeq(items, 1, Min(limit, Len(items)))

search_unicourt(req, answer) ==
    IF answer.status_code # 200
    THEN HTTPException(answer.status_code)
    ELSE SearchResponse(
             MapItems(unicourt_result, TakeLimit(answer.items, req.limit)),
             None)

(***************************************************************************)
(* What the providers may answer.  Each provider has three items: a usual  *)
(* one, one in which every optional field is omitted, and one whose text   *)
(* is longer than the snippet limit.                                       *)
(***************************************************************************)
LongText == Rep(SnippetMax + 1)

\* the page Google finds is the Federal Register document that the Federal
\* Register provider lists too: the two adapters emit the same SearchResult
GoogleUsual ==
    [link |-> Some("https://www.federalregister.gov/d/1"),
     snippet |-> Some("[Rule] Published: 2020-02-02. Agency: EPA. A rule.")]

GoogleItems ==
    { GoogleUsual,
      [link |-> None, snippet |-> None],
      [link |-> Some("https://example.org/long"), snippet |-> Some(LongText)] }

YoutubeUsual ==
    [videoId |-> Some("v1"), description |-> Some("Lecture.")]

YoutubeItems ==
    { YoutubeUsual,
      [videoId |-> None, description |-> None],
      [videoId |-> Some("v2"), description |-> Some(LongText)] }

BooksUsual ==
    [description |-> Some("Treatise."), authors |-> "A, B",
     publisher |-> Some("West"), publishedDate |-> Some("2001"),
     infoLink |-> Some("https://books.example/i1"),
     previewLink |-> Some("https://books.example/p1")]

BooksItems ==
    { BooksUsual,
      [description |-> None, authors |-> "", publisher |-> None,
       publishedDate |-> None, infoLink |-> None, previewLink |-> None],
      [description |-> Some(LongText), authors |-> "A",
       publisher |-> None, publishedDate |-> None,
       infoLink |-> None, previewLink |-> Some("https://books.example/p2")] }

OpenlibraryUsual ==
    [key |-> Some("/works/OL1W"), author_name |-> "A, B",
     first_publish_year |-> Some("1999"), publisher |-> Some("West"),
     subject |-> "Law"]

OpenlibraryItems ==
    { OpenlibraryUsual,
      [key |-> None, author_name |-> "", first_publish_year |-> None,
       publisher |-> None, subject |-> ""],
      [key |-> Some("/works/OL2W"), author_name |-> LongText,
       first_publish_year |-> None, publisher |-> None, subject |-> ""] }

CourtlistenerUsual ==
    [absolute_url |-> Some("/opinion/1/"), court |-> Some("scotus"),
     opinion_snippet |-> Some("Held.")]

CourtlistenerItems ==
    { CourtlistenerUsual,
      [absolute_url |-> None, court |-> None, opinion_snippet |-> None],
      [absolute_url |-> Some("/opinion/2/"), court |-> Some("ca9"),
       opinion_snippet |-> Some(LongText)] }

CongressUsual ==
    [title |-> Some("An Act"), type |-> Some("hr"), number |-> Some("1"),
     congress |-> Some("117"),
     latestAction |-> Some([actionDate |-> "2021-01-01", text |-> "Passed"]),
     sponsor |-> Some([name |-> "Doe", party |-> "I", state |-> "VT"])]

CongressItems ==
    { CongressUsual,
      [title |-> None, type |-> None, number |-> None, congress |-> None,
       latestAction |-> None, sponsor |-> None],
      [title |-> Some(LongText), type |-> Some("s"), number |-> Some("2"),
       congress |-> None, latestAction |-> None, sponsor |-> None] }

FederalregisterUsual ==
    [abstract |-> Some("A rule."), title |-> Some("Rule"),
     has_agencies |-> TRUE, agencies |-> "EPA",
     publication_date |-> Some("2020-02-02"), type |-> Some("Rule"),
     html_url |-> Some("https://www.federalregister.gov/d/1")]

FederalregisterItems ==
    { FederalregisterUsual,
      [abstract |-> None, title |-> None, has_agencies |-> FALSE,
       agencies |-> "", publication_date |-> None, type |-> None,
       html_url |-> None],
      [abstract |-> Some(LongText), title |-> Some("Notice"),
       has_agencies |-> FALSE, agencies |-> "", publication_date |-> None,
       type |-> None, html_url |-> Some("https://www.federalregister.gov/d/2")] }

LocUsual ==
    [description |-> Some("A map."), contributor |-> "Smith",
     date |-> Some("1900"), subject |-> "Maps",
     url |-> Some("https://www.loc.gov/item/1/"), id |-> Some("1")]

LocItems ==
    { LocUsual,
      [description |-> None, contributor |-> "", date |-> None,
       subject |-> "", url |-> None, id |-> None],
      [description |-> Some(LongText), contributor |-> "", date |-> None,
       subject |-> "", url |-> None, id |-> Some("2")] }

UnicourtUsual ==
    [courtName |-> Some("Superior Court"), caseType |-> Some("Civil"),
     filedDate |-> Some("2022-03-03"), caseStatus |-> Some("Open"),
     has_parties |-> TRUE, parties |-> "P, D",
     caseUrl |-> Some("https://unicourt.com/case/c1"), caseId |-> Some("c1")]

UnicourtItems ==
    { UnicourtUsual,
      [courtName |-> None, caseType |-> None, filedDate |-> None,
       caseStatus |-> None, has_parties |-> FALSE, parties |-> "",
       caseUrl |-> None, caseId |-> None],
      [courtName |-> Some(LongText), caseType |-> None, filedDate |-> None,
       caseStatus |-> None, has_parties |-> FALSE, parties |-> "",
       caseUrl |-> None, caseId |-> Some("c2")] }

AllItems(s) ==
    CASE s = "google" -> GoogleItems
      [] s = "youtube" -> YoutubeItems
      [] s = "books" -> BooksItems
      [] s = "openlibrary" -> OpenlibraryItems
      [] s = "courtlistener" -> CourtlistenerItems
      [] s = "congress" -> CongressItems
      [] s = "federalregister" -> FederalregisterItems
      [] s = "loc" -> LocItems
      [] s = "unicourt" -> UnicourtItems

\* the usual item of a provider: the one that has every field
UsualItems(s) ==
    CASE s = "google" -> {GoogleUsual}
      [] s = "youtube" -> {YoutubeUsual}
      [] s = "books" -> {BooksUsual}
      [] s = "openlibrary" -> {OpenlibraryUsual}
      [] s = "courtlistener" -> {CourtlistenerUsual}
      [] s = "congress" -> {CongressUsual}
      [] s = "federalregister" -> {FederalregisterUsual}
      [] s = "loc" -> {LocUsual}
      [] s = "unicourt" -> {UnicourtUsual}

\* a provider's answer to a search request: an HTTP status and, with 200,
\* the items of the JSON body
StatusCodes == {200, 401, 403, 500}

\* the statuses tried while the combined endpoint is served
CombinedStatusCodes == {200, 403}

Answers(codes, items) ==
    {[status_code |-> 200, items |-> its] : its \in SeqsUpTo(items, MaxItems)}
      \cup {[status_code |-> c, items |-> << >>] : c \in codes \ {200}}

\* UniCourt's answer to /generateNewToken
TokenAnswers ==
    { [status_code |-> 200, accessToken |-> Some("tok1"), access_token |-> None],
      [status_code |-> 200, accessToken |-> None, access_token |-> Some("tok2")],
      [status_code |-> 200, accessToken |-> None, access_token |-> None],
      [status_code |-> 401, accessToken |-> None, access_token |-> None] }

(***************************************************************************)
(* Requests.  The optional filters of a request are either all left unset  *)
(* or all set.                                                             *)
(***************************************************************************)
FilterCases ==
    { [search_type |-> None, court |-> "", date_from |-> "", date_to |-> "",
       state |-> "", case_type |-> ""],
      [search_type |-> Some("r"), court |-> "scotus",
       date_from |-> "2020-01-01", date_to |-> "2021-01-01",
       state |-> "CA", case_type |-> "Civil"] }

Request(include, query, limit, f) ==
    [include |-> include, query |-> query, limit |-> limit,
     search_type |-> f.search_type, court |-> f.court,
     date_from |-> f.date_from, date_to |-> f.date_to,
     state |-> f.state, case_type |-> f.case_type,
     party_name |-> "", attorney_name |-> "", judge_name |-> "",
     case_number |-> ""]

NoFilters == CHOOSE f \in FilterCases : f.search_type = None

NoRequest == Request({}, "", 1, NoFilters)

\* CombinedSearchRequest: query has min_length 1, limit is 1..50
CombinedRequests ==
    {Request(inc, "breach of contract", l, f) :
        inc \in {x \in SUBSET Sources : Cardinality(x) <= MaxEnabled},
        l \in {1, MaxLimit}, f \in FilterCases}

\* the request model of one adapter's own endpoint: BaseSearchRequest and
\* its subclasses (query required, search_type defaults to "o"), and
\* UniCourtSearchRequest (query optional)
DirectRequests(s) ==
    {Request({s}, q, l, [NoFilters EXCEPT !.search_type = Some("o")]) :
        q \in (IF s = "unicourt" THEN {"", "fraud", "caseNumber:12"}
               ELSE {"fraud"}),
        l \in 1..MaxLimit}

\* the credentials that .env may configure
CredentialKeys == {"google_api_key", "google_search_engine_id",
                   "youtube_api_key", "unicourt_client_id",
                   "unicourt_client_secret"}

SettingsCases ==
    { CredentialKeys, {}, {"google_api_key", "unicourt_client_id"} }

\* The settings are read once per process, so a token is cached only where
\* the UniCourt credentials are configured: the cache is empty, or holds a
\* token fetched just now, or one fetched TokenTTL ago.
CacheCases ==
    {[settings |-> st, token |-> None, expiry |-> None] : st \in SettingsCases}
      \cup {[settings |-> CredentialKeys, token |-> Some("tok0"),
              expiry |-> Some(e)] : e \in {TokenTTL, TokenTTL + TokenTTL}}

(***************************************************************************)
(* An adapter up to its first suspension point.                            *)
(***************************************************************************)
\* the credential check left out
google_begin_unchecked(st) == Send

google_begin(st) ==
    IF ~google_credentials(st) THEN HTTPException(500) ELSE Send

youtube_begin(st) ==
    IF ~youtube_credentials(st) THEN HTTPException(500) ELSE Send

unicourt_begin(req, st, token, expiry, t) ==
    IF ~unicourt_credentials(st)
    THEN SearchResponse(<< >>,
             Some("UniCourt not configured. Add UNICOURT_CLIENT_ID and UNICOURT_CLIENT_SECRET."))
    ELSE IF token_cache_valid(token, expiry, t)
    THEN unicourt_after_token(req, token)
    ELSE SendToken

adapter_begin(s, req, st, token, expiry, t) ==
    CASE s = "google" -> google_begin(st)
      [] s = "youtube" -> youtube_begin(st)
      [] s = "unicourt" -> unicourt_begin(req, st, token, expiry, t)
      [] OTHER -> Send

\* an adapter from the provider's answer to its return or raise
adapter_finish(s, req, answer) ==
    CASE s = "google" -> search_google(req, answer)
      [] s = "youtube" -> search_youtube(req, answer)
      [] s = "books" -> search_books(req, answer)
      [] s = "openlibrary" -> search_openlibrary(req, answer)
      [] s = "courtlistener" -> search_courtlistener(req, answer)
      [] s = "congress" -> search_congress(req, answer)
      [] s = "federalregister" -> search_federalregister(req, answer)
      [] s = "loc" -> search_loc(req, answer)
      [] s = "unicourt" -> search_unicourt(req, answer)

\* where a task stands after an outcome
TaskState(o) ==
    CASE o.kind = "send" -> "awaiting"
      [] o.kind = "send_token" -> "awaiting_token"
      [] o.kind = "return" -> "returned"
      [] o.kind = "raise" -> "raised"

Finished == {"returned", "raised"}

(***************************************************************************)
(* combined.py                                                             *)
(***************************************************************************)
\* tasks = {}; tasks[key] = ... under each `if request.include_<key>`
task_keys(req) == req.include

\* CourtListenerSearchRequest(search_type=request.search_type, ...): the
\* field is a CourtListenerSearchType, not Optional, so pydantic raises a
\* ValidationError on None
CourtListenerSearchRequest_valid(req) ==
    req.search_type # None /\ req.search_type[1] \in CourtListenerSearchType

\* queueing the enabled searches raises
queue_raises(req) ==
    "courtlistener" \in req.include /\ ~CourtListenerSearchRequest_valid(req)

\* gather without return_exceptions: the first exception ends the wait
gather_first_exception(keys, tk) ==
    \/ \A s \in keys : tk[s] \in Finished
    \/ \E s \in keys : tk[s] = "raised"

\* await asyncio.gather(*task_coros, return_exceptions=True) has returned
gather_complete(keys, tk) == \A s \in keys : tk[s] \in Finished

SourceSearchResult(results, count) == [results |-> results, count |-> count]

\* the isinstance test inverted
source_entry_inverted(o) ==
    IF o.kind # "raise"
    THEN SourceSearchResult(<< >>, 0)
    ELSE SourceSearchResult(o.results, o.count)

\* results[key] for one response of gather
source_entry(o) ==
    IF o.kind = "raise"
    THEN SourceSearchResult(<< >>, 0)
    ELSE SourceSearchResult(o.results, o.count)

\* total += 1 per answering source
total_add_one(o) == IF o.kind = "raise" THEN 0 ELSE 1

\* what one response of gather adds to total
total_add(o) == IF o.kind = "raise" THEN 0 ELSE o.count

RECURSIVE SumOver(_, _)
SumOver(keys, outs) ==
    IF keys = {} THEN 0
    ELSE LET k == CHOOSE x \in keys : TRUE
         IN  total_add(outs[k]) + SumOver(keys \ {k}, outs)

\* a failed source is skipped instead of given an empty entry
CombinedSearchResponse_skip_failed(req, keys, outs) ==
    [results |-> [k \in {x \in keys : outs[x].kind # "raise"} |->
                     source_entry(outs[k])],
     total |-> SumOver(keys, outs),
     query |-> req.query]

\* results.get(key) is None: key is outside the domain of results
CombinedSearchResponse(req, keys, outs) ==
    [results |-> [k \in keys |-> source_entry(outs[k])],
     total |-> SumOver(keys, outs),
     query |-> req.query]

NoResponse == [results |-> << >>, total |-> 0, query |-> ""]

NoAnswer == [status_code |-> 0, to |-> "none"]

(***************************************************************************)
(* get_access_token once the provider has answered the token request:      *)
(* what it returns and what it leaves in the cache.                        *)
(***************************************************************************)
\* the first writer wins: a cache that is valid is not overwritten
get_access_token_first_write(data, token, expiry, t) ==
    IF data.status_code # 200
    THEN [ret |-> None, cached_token |-> token, token_expiry |-> expiry]
    ELSE IF token_cache_valid(token, expiry, t)
    THEN [ret |-> token_from_body(data), cached_token |-> token,
          token_expiry |-> expiry]
    ELSE [ret |-> token_from_body(data),
          cached_token |-> token_from_body(data),
          token_expiry |-> Some(t + TokenTTL)]

\* a refused refresh drops the token that was cached
get_access_token_drop_on_error(data, token, expiry, t) ==
    IF data.status_code # 200
    THEN [ret |-> None, cached_token |-> None, token_expiry |-> expiry]
    ELSE [ret |-> token_from_body(data),
          cached_token |-> token_from_body(data),
          token_expiry |-> Some(t + TokenTTL)]

get_access_token(data, token, expiry, t) ==
    IF data.status_code # 200
    THEN [ret |-> None, cached_token |-> token, token_expiry |-> expiry]
    ELSE [ret |-> token_from_body(data),
          cached_token |-> token_from_body(data),
          token_expiry |-> Some(t + TokenTTL)]

(***************************************************************************)
(* get_access_token as its concurrent callers see it (unicourt.py 24-54).  *)
(***************************************************************************)
Callers == 1..MaxCallers

\* the cache never consulted
get_access_token_begin_no_cache(st, token, expiry, t) ==
    IF ~unicourt_credentials(st) THEN [kind |-> "return", ret |-> None]
    ELSE [kind |-> "send_token", ret |-> None]

\* get_access_token up to its first suspension point: it returns at once
\* (no credentials, or the cached token) or posts one token request
get_access_token_begin(st, token, expiry, t) ==
    IF ~unicourt_credentials(st) THEN [kind |-> "return", ret |-> None]
    ELSE IF token_cache_valid(token, expiry, t)
    THEN [kind |-> "return", ret |-> token]
    ELSE [kind |-> "send_token", ret |-> None]

\* the n-th token the provider issues
Token(n) == "tok" \o ToString(n)

\* the provider's answers to /generateNewToken when its next token is tok
TokenReplies(tok) ==
    { [status_code |-> 200, accessToken |-> Some(tok), access_token |-> None],
      [status_code |-> 200, accessToken |-> None, access_token |-> Some(tok)],
      [status_code |-> 200, accessToken |-> None, access_token |-> None],
      [status_code |-> 401, accessToken |-> None, access_token |-> None] }

NoReply == [status_code |-> 0, accessToken |-> None, access_token |-> None]

\* a call of get_access_token: where it stands, what it returned, the
\* token requests it sent, the answer it got and whether it wrote the cache
NoCall == [pc |-> "idle", ret |-> None, sent |-> 0, data |-> NoReply]

(***************************************************************************)
(* The state machine: one request is served, by the combined endpoint or   *)
(* by one adapter's own endpoint.                                          *)
(***************************************************************************)
CacheInit ==
    /\ now = TokenTTL
    /\ \E c \in CacheCases :
          /\ settings = c.settings
          /\ cached_token = c.token
          /\ token_expiry = c.expiry

SearchIdle ==
    /\ mode = "idle"
    /\ request = NoRequest
    /\ task = [s \in Sources |-> "none"]
    /\ out = [s \in Sources |-> NoOutcome]
    /\ nsent = [s \in Sources |-> 0]
    /\ answered = [s \in Sources |-> NoAnswer]
    /\ response = NoResponse

\* no call of get_access_token has begun
TokenIdle ==
    /\ call = [c \in Callers |-> NoCall]
    /\ issued = 0
    /\ refreshes = << >>

\* chunk_text has not been called
ChunkIdle ==
    /\ text = ""
    /\ chunk_size = 1000
    /\ overlap = 100
    /\ start = 0
    /\ chunks = << >>
    /\ windows = << >>
    /\ chunk_pc = "idle"

\* the options clean_content assumes when it is given none
DefaultOptions ==
    [remove_html |-> TRUE, remove_urls |-> FALSE,
     normalize_whitespace |-> TRUE, remove_short_lines |-> FALSE,
     min_line_length |-> 10, normalize_markdown |-> TRUE]

\* clean_content has not been called
CleanIdle ==
    /\ original_content = ""
    /\ options = DefaultOptions
    /\ cleaned_content = ""
    /\ recleaned_content = ""
    /\ clean_pc = 0

\* ChatRequest() with every field at its default
NoChatRequest ==
    [message |-> None, mode |-> "qa", provider |-> "pgvector",
     resource_ids |-> None, session_id |-> None]

NoChatResponse ==
    [success |-> FALSE, response |-> None, sources |-> << >>, mode |-> "",
     provider |-> "", model |-> "", error |-> None]

\* chat has not been called and the tables are empty
ChatIdle ==
    /\ chat_request = NoChatRequest
    /\ chat_pc = "idle"
    /\ lr_resources = << >>
    /\ matched = << >>
    /\ search_results = << >>
    /\ resources = << >>
    /\ chat_log = << >>
    /\ lr_chat_messages = << >>
    /\ chat_response = NoChatResponse

NoEmbedRequest ==
    [resource_id |-> None, resource_ids |-> None, force |-> FALSE,
     clean_data |-> TRUE]

NoEmbedResponse ==
    [success |-> FALSE, processed |-> 0, successful |-> 0, skipped |-> 0,
     errors |-> 0, results |-> << >>, message |-> ""]

\* generate_resource_embeddings has not been called and lr_embeddings is
\* empty
EmbedIdle ==
    /\ embed_request = NoEmbedRequest
    /\ embed_pc = "idle"
    /\ embed_idx = 0
    /\ embed_chunks = << >>
    /\ embed_results = << >>
    /\ lr_embeddings = << >>
    /\ embeddings_before = << >>
    /\ embed_response = NoEmbedResponse

NoStartResult ==
    [success |-> FALSE, job_id |-> None, status |-> None, error |-> None]

NoCrawlResponse ==
    [success |-> FALSE, job_id |-> None, status |-> "", total |-> 0,
     error |-> None]

\* crawl_sync has not been called
CrawlIdle ==
    /\ timeout_seconds = 0
    /\ crawl_pc = "idle"
    /\ start_result = NoStartResult
    /\ polled = << >>
    /\ polls = 0
    /\ crawl_response = NoCrawlResponse

JobsIdle == EmbedIdle /\ CrawlIdle

Init ==
    /\ CacheInit /\ SearchIdle /\ TokenIdle
    /\ ChunkIdle /\ CleanIdle /\ ChatIdle /\ JobsIdle

\* the search side at rest, for the specifications of the AI services
SearchQuiet ==
    /\ now = TokenTTL
    /\ settings = CredentialKeys
    /\ cached_token = None
    /\ token_expiry = None
    /\ SearchIdle
    /\ TokenIdle

\* every coroutine of `keys` runs up to its first suspension point
StartTasks(req, keys) ==
    LET b(s) == adapter_begin(s, req, settings, cached_token, token_expiry, now)
    IN  /\ task' = [s \in Sources |->
                      IF s \in keys THEN TaskState(b(s)) ELSE "none"]
        /\ out' = [s \in Sources |->
                      IF s \in keys /\ b(s).kind \in {"return", "raise"}
                      THEN b(s) ELSE NoOutcome]
        /\ nsent' = [s \in Sources |->
                      IF s \in keys /\ b(s).kind \in {"send", "send_token"}
                      THEN 1 ELSE 0]

\* POST /search/combined, up to `await asyncio.gather(...)`
SearchCombined(req) ==
    /\ mode = "idle"
    /\ request' = req
    /\ IF queue_raises(req)
       THEN /\ mode' = "raised"
            /\ UNCHANGED <<task, out, nsent, response>>
       ELSE IF task_keys(req) = {}
       THEN /\ mode' = "done"
            /\ response' = CombinedSearchResponse(req, {}, out)
            /\ UNCHANGED <<task, out, nsent>>
       ELSE /\ mode' = "gather"
            /\ StartTasks(req, task_keys(req))
            /\ UNCHANGED response
    /\ UNCHANGED <<settings, cached_token, token_expiry, now, answered>>
    /\ UNCHANGED <<tokenVars, aiVars>>

\* POST /search/<source>, up to the adapter's first suspension point
DirectCall(s, req) ==
    /\ mode = "idle"
    /\ request' = req
    /\ mode' = "direct"
    /\ StartTasks(req, {s})
    /\ UNCHANGED <<settings, cached_token, token_expiry, now, answered,
                   response>>
    /\ UNCHANGED <<tokenVars, aiVars>>

\* the provider answers the search request of source s
ProviderResponds(s) ==
    /\ mode \in {"gather", "direct"}
    /\ task[s] = "awaiting"
    /\ \E answer \in (IF mode = "direct"
                        THEN Answers(StatusCodes, AllItems(s))
                        ELSE Answers(CombinedStatusCodes, UsualItems(s))) :
          LET o == adapter_finish(s, request, answer)
          IN  /\ out' = [out EXCEPT ![s] = o]
              /\ task' = [task EXCEPT ![s] = TaskState(o)]
              /\ answered' = [answered EXCEPT ![s] =
                     [status_code |-> answer.status_code, to |-> "search"]]
    /\ UNCHANGED <<settings, cached_token, token_expiry, now, mode, request,
                   nsent, response>>
    /\ UNCHANGED <<tokenVars, aiVars>>

\* UniCourt answers the token request; search_unicourt goes on to its
\* search request or raises
TokenResponds ==
    /\ mode \in {"gather", "direct"}
    /\ task["unicourt"] = "awaiting_token"
    /\ \E data \in TokenAnswers :
          LET r == get_access_token(data, cached_token, token_expiry, now)
              o == unicourt_after_token(request, r.ret)
          IN  /\ cached_token' = r.cached_token
              /\ token_expiry' = r.token_expiry
              /\ task' = [task EXCEPT !["unicourt"] = TaskState(o)]
              /\ out' = [out EXCEPT !["unicourt"] =
                            IF o.kind = "raise" THEN o ELSE NoOutcome]
              /\ nsent' = [nsent EXCEPT !["unicourt"] =
                            IF o.kind = "send" THEN @ + 1 ELSE @]
              /\ answered' = [answered EXCEPT !["unicourt"] =
                     [status_code |-> data.status_code, to |-> "token"]]
    /\ UNCHANGED <<settings, now, mode, request, response>>
    /\ UNCHANGED <<tokenVars, aiVars>>

\* gather returns and search_combined builds its response
GatherJoin ==
    /\ mode = "gather"
    /\ gather_complete(task_keys(request), task)
    /\ response' = CombinedSearchResponse(request, task_keys(request), out)
    /\ mode' = "done"
    /\ UNCHANGED <<settings, cached_token, token_expiry, now, request, task,
                   out, nsent, answered>>
    /\ UNCHANGED <<tokenVars, aiVars>>

Next ==
    \/ \E req \in CombinedRequests : SearchCombined(req)
    \/ \E s \in Sources : \E req \in DirectRequests(s) : DirectCall(s, req)
    \/ \E s \in Sources : ProviderResponds(s)
    \/ TokenResponds
    \/ GatherJoin

Spec == Init /\ [][Next]_vars

(***************************************************************************)
(* The token cache under concurrent callers: every caller runs             *)
(* get_access_token once; the callers interleave at the await of the token *)
(* request, and the clock advances between their steps.                    *)
(***************************************************************************)
\* time passes: half the lifetime of a token
Tick ==
    /\ now < TokenTTL + MaxTicks * (TokenTTL \div 2)
    /\ now' = now + (TokenTTL \div 2)
    /\ UNCHANGED <<settings, cached_token, token_expiry, searchVars, tokenVars,
                   aiVars>>

\* caller c enters get_access_token and runs to its return or to the await
CallToken(c) ==
    /\ call[c].pc = "idle"
    /\ LET b == get_access_token_begin(settings, cached_token, token_expiry,
                                       now)
       IN  call' = [call EXCEPT ![c] =
                      IF b.kind = "return"
                      THEN [@ EXCEPT !.pc = "done", !.ret = b.ret]
                      ELSE [@ EXCEPT !.pc = "awaiting", !.sent = @ + 1]]
    /\ UNCHANGED <<settings, cached_token, token_expiry, now, searchVars,
                   issued, refreshes, aiVars>>

\* the provider answers the token request of caller c, which resumes,
\* writes the cache and returns
TokenReply(c) ==
    /\ call[c].pc = "awaiting"
    /\ \E data \in TokenReplies(Token(issued + 1)) :
          LET r == get_access_token(data, cached_token, token_expiry, now)
          IN  /\ cached_token' = r.cached_token
              /\ token_expiry' = r.token_expiry
              /\ call' = [call EXCEPT ![c] =
                            [@ EXCEPT !.pc = "done", !.ret = r.ret,
                                      !.data = data]]
              /\ issued' = IF Truthy(token_from_body(data))
                           THEN issued + 1 ELSE issued
              /\ refreshes' = IF data.status_code = 200
                              THEN Append(refreshes,
                                          [caller |-> c,
                                           token |-> token_from_body(data)])
                              ELSE refreshes
    /\ UNCHANGED <<settings, now, searchVars, aiVars>>

TokenNext ==
    \/ Tick
    \/ \E c \in Callers : CallToken(c)
    \/ \E c \in Callers : TokenReply(c)

TokenSpec == Init /\ [][TokenNext]_vars

\* the callers start with the credentials configured and the cache empty
\* or expired
StaleStart ==
    /\ Init
    /\ unicourt_credentials(settings)
    /\ ~token_cache_valid(cached_token, token_expiry, now)

RaceSpec == StaleStart /\ [][TokenNext]_vars

(***************************************************************************)
(* services/ai.py: chunk_text.                                             *)
(***************************************************************************)
\* an index of a Python slice brought into 0..len
slice_index(i, n) ==
    IF i < 0 THEN (IF i + n < 0 THEN 0 ELSE i + n)
    ELSE IF i > n THEN n ELSE i

\* s[a:b]
PySlice(s, a, b) ==
    SubSeq(s, slice_index(a, Len(s)) + 1, slice_index(b, Len(s)))

\* s.rfind(sep): the highest index at which sep occurs in s, or -1
rfind(s, sep) ==
    LET at == {i \in 0..(Len(s) - Len(sep)) :
                  SubSeq(s, i + 1, i + Len(sep)) = sep}
    IN  IF at = {} THEN -1 ELSE CHOOSE i \in at : \A j \in at : j <= i

\* the characters str.strip() removes
Whitespace == {" ", "\n", "\t", "\r", "\f"}

RECURSIVE lstrip(_)
lstrip(s) ==
    IF s # "" /\ SubSeq(s, 1, 1) \in Whitespace
    THEN lstrip(SubSeq(s, 2, Len(s))) ELSE s

RECURSIVE rstrip(_)
rstrip(s) ==
    IF s # "" /\ SubSeq(s, Len(s), Len(s)) \in Whitespace
    THEN rstrip(SubSeq(s, 1, Len(s) - 1)) ELSE s

\* s.strip()
strip(s) == rstrip(lstrip(s))

\* the separators of line 29, in the order the loop tries them
SentenceEnds == << ". ", ".\n", "? ", "?\n", "! ", "!\n" >>

\* lines 24-33: the end of the window that starts at st
window_end(t, st, size) ==
    LET end == st + size
        last_sep(k) == rfind(PySlice(t, st, end), SentenceEnds[k])
        found == {k \in 1..Len(SentenceEnds) : last_sep(k) > size \div 2}
        first == CHOOSE k \in found : \A j \in found : k <= j
    IN  IF end < Len(t) /\ found # {}
        THEN st + last_sep(first) + Len(SentenceEnds[first])
        ELSE end

\* lines 17-18: `not text or len(text) < chunk_size`
returns_early(t, size) == t = "" \/ Len(t) < size

\* line 18: `[text] if text else []`
early_chunks(t) == IF t # "" THEN << t >> ELSE << >>

\* the texts given to chunk_text: up to MaxPieces words, sentence ends and
\* spaces
Pieces == {"aaaaa", "a", ". ", "? ", " "}

Texts == {Join("", w) : w \in SeqsUpTo(Pieces, MaxPieces)}

\* the overlaps tried with a chunk size: none, one character, all but two
\* and all but one character of the window
Overlaps(size) == {0, 1, size - 2, size - 1} \cap (0..(size - 1))

ChunkInit ==
    /\ SearchQuiet
    /\ CleanIdle
    /\ ChatIdle
    /\ JobsIdle
    /\ text \in Texts
    /\ chunk_size \in 1..MaxChunk
    /\ overlap \in Overlaps(chunk_size)
    /\ start = 0
    /\ chunks = << >>
    /\ windows = << >>
    /\ chunk_pc = "idle"

\* chunk_text is called: lines 17-21
ChunkCall ==
    /\ chunk_pc = "idle"
    /\ IF returns_early(text, chunk_size)
       THEN /\ chunks' = early_chunks(text)
            /\ chunk_pc' = "done"
       ELSE /\ chunks' = << >>
            /\ chunk_pc' = "loop"
    /\ start' = 0
    /\ UNCHANGED <<text, chunk_size, overlap, windows>>
    /\ UNCHANGED <<cacheVars, searchVars, tokenVars, cleanVars, chatVars,
                   jobVars>>

\* one iteration of the while loop, lines 23-39, and the test of its
\* condition.  The body depends on start alone, so the loop never ends once
\* start takes a value it had before.
ChunkStep ==
    /\ chunk_pc = "loop"
    /\ LET end == window_end(text, start, chunk_size)
           chunk == strip(PySlice(text, start, end))
       IN  /\ windows' = Append(windows, [start |-> start, end |-> end])
           /\ chunks' = IF chunk # "" THEN Append(chunks, chunk) ELSE chunks
           /\ start' = end - overlap
           /\ chunk_pc' =
                 IF ~(end - overlap < Len(text)) THEN "done"
                 ELSE IF \E i \in 1..Len(windows) + 1 :
                            windows'[i].start = end - overlap
                 THEN "diverged"
                 ELSE "loop"
    /\ UNCHANGED <<text, chunk_size, overlap>>
    /\ UNCHANGED <<cacheVars, searchVars, tokenVars, cleanVars, chatVars,
                   jobVars>>

ChunkNext == ChunkCall \/ ChunkStep

ChunkSpec == ChunkInit /\ [][ChunkNext]_vars

(***************************************************************************)
(* services/ai.py: clean_content.  Each re.sub is a scan of the text from  *)
(* the left that replaces the leftmost match and goes on after it.         *)
(***************************************************************************)
\* the characters from index i of s on that are in C (inside) or are not
\* in C (not inside), up to the first one that differs
RECURSIVE Run(_, _, _, _)
Run(s, i, C, inside) ==
    IF i <= Len(s) /\ ((SubSeq(s, i, i) \in C) = inside)
    THEN 1 + Run(s, i + 1, C, inside) ELSE 0

\* s from index i on
Rest(s, i) == SubSeq(s, i, Len(s))

StartsWith(s, p) == Len(s) >= Len(p) /\ SubSeq(s, 1, Len(p)) = p

\* re.sub(r"<[^>]+>", " ", s), for the first match only
strip_first_tag(s) ==
    LET opens == {i \in 1..Len(s) :
                     /\ SubSeq(s, i, i) = "<"
                     /\ Run(s, i + 1, {">"}, FALSE) >= 1
                     /\ i + Run(s, i + 1, {">"}, FALSE) + 1 <= Len(s)}
        i == CHOOSE i \in opens : \A j \in opens : i <= j
    IN  IF opens = {} THEN s
        ELSE SubSeq(s, 1, i - 1) \o " "
               \o Rest(s, i + Run(s, i + 1, {">"}, FALSE) + 2)

\* re.sub(r"<[^>]+>", " ", s)
RECURSIVE strip_tags(_)
strip_tags(s) ==
    LET inner == Run(s, 2, {">"}, FALSE)
    IN  IF s = "" THEN ""
        ELSE IF StartsWith(s, "<") /\ inner >= 1 /\ inner + 2 <= Len(s)
        THEN " " \o strip_tags(Rest(s, inner + 3))
        ELSE SubSeq(s, 1, 1) \o strip_tags(Rest(s, 2))

\* the length of "http://" or "https://" at the head of s, or 0
url_scheme(s) ==
    IF StartsWith(s, "https://") THEN 8
    ELSE IF StartsWith(s, "http://") THEN 7 ELSE 0

\* re.sub(r"https?://\S+", "", s)
RECURSIVE strip_urls(_)
strip_urls(s) ==
    LET scheme == url_scheme(s)
        tail == Run(s, scheme + 1, Whitespace, FALSE)
    IN  IF s = "" THEN ""
        ELSE IF scheme > 0 /\ tail >= 1
        THEN strip_urls(Rest(s, scheme + tail + 1))
        ELSE SubSeq(s, 1, 1) \o strip_urls(Rest(s, 2))

\* re.sub(r"[ \t]+", " ", s)
RECURSIVE collapse_blanks(_)
collapse_blanks(s) ==
    LET blanks == Run(s, 1, {" ", "\t"}, TRUE)
    IN  IF s = "" THEN ""
        ELSE IF blanks >= 1 THEN " " \o collapse_blanks(Rest(s, blanks + 1))
        ELSE SubSeq(s, 1, 1) \o collapse_blanks(Rest(s, 2))

\* re.sub(r"\n{3,}", "\n\n", s)
RECURSIVE collapse_newlines(_)
collapse_newlines(s) ==
    LET newlines == Run(s, 1, {"\n"}, TRUE)
    IN  IF s = "" THEN ""
        ELSE IF newlines >= 3
        THEN "\n\n" \o collapse_newlines(Rest(s, newlines + 1))
        ELSE SubSeq(s, 1, 1) \o collapse_newlines(Rest(s, 2))

\* s.split("\n")
RECURSIVE split_lines(_)
split_lines(s) ==
    LET first == Run(s, 1, {"\n"}, FALSE)
    IN  IF first = Len(s) THEN << s >>
        ELSE << SubSeq(s, 1, first) >> \o split_lines(Rest(s, first + 2))

\* lines 75-79: the lines shorter than min_len dropped, blank lines kept
drop_short_lines(s, min_len) ==
    LET keep(line) == Len(strip(line)) >= min_len \/ strip(line) = ""
    IN  Join("\n", SelectSeq(split_lines(s), keep))

\* re.sub(r"\n(#{1,6})\s*", r"\n\n\1 ", s)
RECURSIVE fix_headings(_)
fix_headings(s) ==
    LET hashes == Min(Run(s, 2, {"#"}, TRUE), 6)
        spaces == Run(s, 2 + hashes, Whitespace, TRUE)
    IN  IF s = "" THEN ""
        ELSE IF StartsWith(s, "\n") /\ hashes >= 1
        THEN "\n\n" \o SubSeq(s, 2, 1 + hashes) \o " "
               \o fix_headings(Rest(s, 2 + hashes + spaces))
        ELSE SubSeq(s, 1, 1) \o fix_headings(Rest(s, 2))

\* re.sub(r"\n([-*])\s+", r"\n\1 ", s)
RECURSIVE fix_lists(_)
fix_lists(s) ==
    LET spaces == Run(s, 3, Whitespace, TRUE)
    IN  IF s = "" THEN ""
        ELSE IF StartsWith(s, "\n") /\ Len(s) >= 2
                /\ SubSeq(s, 2, 2) \in {"-", "*"} /\ spaces >= 1
        THEN "\n" \o SubSeq(s, 2, 2) \o " " \o fix_lists(Rest(s, 3 + spaces))
        ELSE SubSeq(s, 1, 1) \o fix_lists(Rest(s, 2))

\* clean_content(text, options), lines 53-88
clean_content(t, opts) ==
    LET html == IF opts.remove_html THEN strip_tags(t) ELSE t
        urls == IF opts.remove_urls THEN strip_urls(html) ELSE html
        white == IF opts.normalize_whitespace
                 THEN collapse_newlines(collapse_blanks(urls)) ELSE urls
        short == IF opts.remove_short_lines
                 THEN drop_short_lines(white, opts.min_line_length)
                 ELSE white
        markdown == IF opts.normalize_markdown
                    THEN fix_lists(fix_headings(short)) ELSE short
    IN  IF t = "" THEN "" ELSE strip(markdown)

\* the texts given to clean_content: up to MaxCleanPieces tags, brackets,
\* letters, blanks, line ends, markdown markers and links, and the example
\* of the documentation
CleanPieces == {"<b>", "<", ">", "a", " ", "\n", "#", "-", "http://b"}

CleanTexts ==
    {Join("", w) : w \in SeqsUpTo(CleanPieces, MaxCleanPieces)}
      \cup {"<p>Hello   world</p>\n\n\n\nBye"}

\* the options given to clean_content
OptionCases ==
    {o \in [remove_html : BOOLEAN, remove_urls : BOOLEAN,
            normalize_whitespace : BOOLEAN, remove_short_lines : BOOLEAN,
            min_line_length : {2, 10}, normalize_markdown : BOOLEAN] :
        o.remove_short_lines \/ o.min_line_length = 10}

CleanInit ==
    /\ SearchQuiet
    /\ ChunkIdle
    /\ ChatIdle
    /\ JobsIdle
    /\ original_content \in CleanTexts
    /\ options \in OptionCases
    /\ cleaned_content = ""
    /\ recleaned_content = ""
    /\ clean_pc = 0

\* clean_content is applied to the text
CleanText ==
    /\ clean_pc = 0
    /\ cleaned_content' = clean_content(original_content, options)
    /\ clean_pc' = 1
    /\ UNCHANGED <<original_content, options, recleaned_content>>
    /\ UNCHANGED <<cacheVars, searchVars, tokenVars, chunkVars, chatVars,
                   jobVars>>

\* clean_content is applied to what it returned, with the same options
CleanAgain ==
    /\ clean_pc = 1
    /\ recleaned_content' = clean_content(cleaned_content, options)
    /\ clean_pc' = 2
    /\ UNCHANGED <<original_content, options, cleaned_content>>
    /\ UNCHANGED <<cacheVars, searchVars, tokenVars, chunkVars, chatVars,
                   jobVars>>

CleanNext == CleanText \/ CleanAgain

CleanSpec == CleanInit /\ [][CleanNext]_vars

(***************************************************************************)
(* routers/ai/chat.py: the chat endpoint.  chat is followed from one       *)
(* external call to the next: the embedding, the vector lookup, the reads  *)
(* of lr_resources, the completion and the history inserts.  Each call     *)
(* returns or raises.  A similarity is counted in hundredths.              *)
(***************************************************************************)
\* chunk_text from line 23 on, for arguments with which the loop ends
RECURSIVE chunk_loop(_, _, _, _)
chunk_loop(t, size, ov, st) ==
    IF ~(st < Len(t)) THEN << >>
    ELSE LET end == window_end(t, st, size)
             chunk == strip(PySlice(t, st, end))
         IN  (IF chunk # "" THEN << chunk >> ELSE << >>)
               \o chunk_loop(t, size, ov, end - ov)

chunk_text(t, size, ov) ==
    IF returns_early(t, size) THEN early_chunks(t)
    ELSE chunk_loop(t, size, ov, 0)

\* Python truthiness of an optional list: None and [] are falsy
TruthyList(opt) == opt # None /\ opt[1] # << >>

\* `request.resource_ids or []`
IdsOf(req) == IF req.resource_ids = None THEN << >> ELSE req.resource_ids[1]

\* `x in seq`
InSeq(x, seq) == \E i \in 1..Len(seq) : seq[i] = x

\* s[:n]
Head200(s) == SubSeq(s, 1, Min(200, Len(s)))

\* lines 75-92: get_resource_content
get_resource_content(table, ids) ==
    LET wanted(r) == InSeq(r.id, ids)
        row(r) == [id |-> r.id, title |-> r.title,
                   content |-> OrElse(r.content, OrElse(r.description, "")),
                   url |-> r.url]
        rows == SelectSeq(table, wanted)
    IN  [i \in 1..Len(rows) |-> row(rows[i])]

RECURSIVE grouped_from(_, _, _)
\* the chunks of the resources table[n..], resource after resource
grouped_from(table, found, n) ==
    IF n > Len(table) THEN << >>
    ELSE LET mine(c) == c.resource_id = table[n].id
             own == SelectSeq(found, mine)
         IN  [i \in 1..Len(own) |->
                 [own[i] EXCEPT !.resource_title = Some(table[n].title),
                                !.resource_url = Some(table[n].url)]]
               \o grouped_from(table, found, n + 1)

\* lines 57-70 with the loop running over the resources read, not over the
\* chunks
with_resource_grouped(table, found) == grouped_from(table, found, 1)

\* lines 57-70: the title and the url of its resource joined to each chunk
with_resource(table, found) ==
    LET of(c) == {i \in 1..Len(table) : table[i].id = c.resource_id}
        last(c) == CHOOSE i \in of(c) : \A j \in of(c) : j <= i
        join(c) == [c EXCEPT
                      !.resource_title =
                          IF of(c) = {} THEN None
                          ELSE Some(table[last(c)].title),
                      !.resource_url =
                          IF of(c) = {} THEN None
                          ELSE Some(table[last(c)].url)]
    IN  [i \in 1..Len(found) |-> join(found[i])]

\* the condition of line 186 on resource_ids alone
fallback_if_ids(results, req) == TruthyList(req.resource_ids)

\* line 186: `not search_results and request.resource_ids`
fallback_needed(results, req) ==
    results = << >> /\ TruthyList(req.resource_ids)

\* lines 188-198 with the loop over the resources left after its first round
fallback_chunks_first(res) ==
    IF res = << >> THEN << >>
    ELSE LET r == Head(res)
             all == chunk_text(r.content, 1000, 100)
             first3 == SubSeq(all, 1, Min(3, Len(all)))
         IN  [idx \in 1..Len(first3) |->
                 [resource_id |-> r.id, chunk_index |-> idx - 1,
                  chunk_text |-> first3[idx], similarity |-> 50,
                  resource_title |-> Some(r.title),
                  resource_url |-> Some(r.url)]]

\* lines 188-198: up to three chunks of every resource, as search results
RECURSIVE fallback_chunks(_)
fallback_chunks(res) ==
    IF res = << >> THEN << >>
    ELSE LET r == Head(res)
             all == chunk_text(r.content, 1000, 100)
             first3 == SubSeq(all, 1, Min(3, Len(all)))
         IN  [idx \in 1..Len(first3) |->
                 [resource_id |-> r.id, chunk_index |-> idx - 1,
                  chunk_text |-> first3[idx], similarity |-> 50,
                  resource_title |-> Some(r.title),
                  resource_url |-> Some(r.url)]]
               \o fallback_chunks(Tail(res))

SourceChunk(id, title, url, snippet, similarity) ==
    [resource_id |-> id, title |-> title, url |-> url, snippet |-> snippet,
     similarity |-> similarity]

\* lines 201-210 and 273-282: sources
chat_sources(req, results, res) ==
    IF req.mode = "summarize" THEN << >>
    ELSE IF req.provider = "pgvector"
    THEN [i \in 1..Len(results) |->
            SourceChunk(results[i].resource_id, results[i].resource_title,
                        results[i].resource_url,
                        Head200(results[i].chunk_text) \o "...",
                        results[i].similarity)]
    ELSE [i \in 1..Len(res) |->
            SourceChunk(res[i].id, Some(res[i].title), Some(res[i].url),
                        Head200(res[i].content) \o "...", 100)]

\* lines 146 and 235: `model or <the provider's default>`
default_model(req) ==
    IF req.provider = "pgvector" THEN "gpt-4o-mini"
    ELSE "gemini-2.0-flash-exp"

\* a ChatResponse with success=False
ChatError(req, model, error) ==
    [success |-> FALSE, response |-> None, sources |-> << >>,
     mode |-> req.mode, provider |-> req.provider, model |-> model,
     error |-> Some(error)]

\* lines 309-316
ChatSuccess(req, reply, sources) ==
    [success |-> TRUE, response |-> Some(reply), sources |-> sources,
     mode |-> req.mode, provider |-> req.provider,
     model |-> default_model(req), error |-> None]

\* lines 318-325 with the message of the exception alone as the error
ChatFailed_bare(req) == ChatError(req, "", "")

\* lines 318-325: `except Exception as e`
ChatFailed(req) == ChatError(req, "", "Chat failed: error")

\* lines 287-291: the row of the user turn
user_row(req) ==
    [session_id |-> req.session_id[1], role |-> "user",
     content |-> OrElse(req.message, "[Summarize request]"),
     sources |-> << >>]

\* lines 294-307: the row of the assistant turn
assistant_row(req, reply, sources) ==
    [session_id |-> req.session_id[1], role |-> "assistant",
     content |-> reply,
     sources |-> [i \in 1..Len(sources) |->
                     [resource_id |-> sources[i].resource_id,
                      title |-> sources[i].title,
                      similarity |-> sources[i].similarity]]]

\* lines 285-307 with the two inserts in the other order
history_rows_swapped(req, reply, sources) ==
    << assistant_row(req, reply, sources), user_row(req) >>

\* lines 285-307: the rows chat inserts, in the order of the inserts
history_rows(req, reply, sources) ==
    << user_row(req), assistant_row(req, reply, sources) >>

\* lines 112-129 with `is None` for `not`
chat_refusal_none_only(req, st) ==
    IF req.mode # "summarize" /\ req.message = None
    THEN Some("Message is required for chat/qa modes")
    ELSE IF req.mode = "summarize" /\ req.resource_ids = None
    THEN Some("resource_ids required for summarize mode")
    ELSE IF req.provider = "pgvector" /\ "openai_api_key" \notin st
    THEN Some("OpenAI API key not configured")
    ELSE IF req.provider = "gemini" /\ "gemini_api_key" \notin st
    THEN Some("Gemini API key not configured")
    ELSE None

\* lines 225-226 with the key of the other backend
chat_refusal_one_key(req, st) ==
    IF req.mode # "summarize" /\ ~Truthy(req.message)
    THEN Some("Message is required for chat/qa modes")
    ELSE IF req.mode = "summarize" /\ ~TruthyList(req.resource_ids)
    THEN Some("resource_ids required for summarize mode")
    ELSE IF req.provider = "pgvector" /\ "openai_api_key" \notin st
    THEN Some("OpenAI API key not configured")
    ELSE IF req.provider = "gemini" /\ "openai_api_key" \notin st
    THEN Some("Gemini API key not configured")
    ELSE None

\* lines 112-144 and 225-233: the checks made before any external call
chat_refusal(req, st) ==
    IF req.mode # "summarize" /\ ~Truthy(req.message)
    THEN Some("Message is required for chat/qa modes")
    ELSE IF req.mode = "summarize" /\ ~TruthyList(req.resource_ids)
    THEN Some("resource_ids required for summarize mode")
    ELSE IF req.provider = "pgvector" /\ "openai_api_key" \notin st
    THEN Some("OpenAI API key not configured")
    ELSE IF req.provider = "gemini" /\ "gemini_api_key" \notin st
    THEN Some("Gemini API key not configured")
    ELSE None

\* the first external call of a request that passed the checks
first_call(req) ==
    IF req.provider = "pgvector" /\ req.mode # "summarize" THEN "embed"
    ELSE "read_content"

\* the call that follows the vector lookup and the join of the titles
after_lookup(results, req) ==
    IF fallback_needed(results, req) THEN "read_content" ELSE "complete"

\* the rows of lr_resources: two resources, one with content and one with
\* a description only; one resource with neither; no resource
StoreCases ==
    { << [id |-> "r1", title |-> "Roe", content |-> Some("Alpha. Beta."),
          description |-> None, url |-> "u1"],
         [id |-> "r2", title |-> "Doe", content |-> None,
          description |-> Some("Gamma"), url |-> "u2"] >>,
      << [id |-> "r1", title |-> "Roe", content |-> None,
          description |-> None, url |-> "u1"] >>,
      << >> }

\* the rows of the embeddings index, each with its similarity to the query
MatchItems ==
    { [resource_id |-> "r1", chunk_index |-> 0, chunk_text |-> "Alpha.",
       similarity |-> 60, resource_title |-> None, resource_url |-> None],
      [resource_id |-> "r2", chunk_index |-> 0, chunk_text |-> "Gamma",
       similarity |-> 90, resource_title |-> None, resource_url |-> None],
      [resource_id |-> "r1", chunk_index |-> 1, chunk_text |-> "Beta.",
       similarity |-> 40, resource_title |-> None, resource_url |-> None] }

\* an index with more rows at or above the threshold than match_count
LongIndex ==
    [i \in 1..(MatchCount + 2) |->
        [resource_id |-> "r1", chunk_index |-> i - 1, chunk_text |-> "Alpha.",
         similarity |-> MatchThreshold - 2 + i, resource_title |-> None,
         resource_url |-> None]]

EmbeddingIndexes == SeqsUpTo(MatchItems, MaxMatches) \cup {LongIndex}

\* the rows ranked by similarity, the most similar first
by_similarity(rows) ==
    LET rank(i) ==
            1 + Cardinality({j \in 1..Len(rows) :
                    \/ rows[j].similarity > rows[i].similarity
                    \/ rows[j].similarity = rows[i].similarity /\ j < i})
    IN  [p \in 1..Len(rows) |->
            rows[CHOOSE i \in 1..Len(rows) : rank(i) = p]]

\* the database function match_embeddings: the rows of the resources in
\* filter_resource_ids (of every resource when it is null) whose similarity
\* is at least match_threshold, ranked, the first match_count of them
match_embeddings(index, match_threshold, match_count, filter_resource_ids) ==
    LET keep(r) ==
            /\ r.similarity >= match_threshold
            /\ filter_resource_ids # None
                   => InSeq(r.resource_id, filter_resource_ids[1])
        ranked == by_similarity(SelectSeq(index, keep))
    IN  SubSeq(ranked, 1, Min(match_count, Len(ranked)))

\* lines 45-55: what the rpc call of search_similar_chunks may return
MatchAnswers(resource_ids) ==
    {match_embeddings(index, MatchThreshold, MatchCount, resource_ids) :
        index \in EmbeddingIndexes}

ChatRequests ==
    [message : {None, Some(""), Some("q")},
     mode : {"chat", "qa", "summarize"},
     provider : {"pgvector", "gemini"},
     resource_ids : {None, Some(<< >>), Some(<<"r1">>), Some(<<"r1", "r2">>)},
     session_id : {None, Some("s1")}]

\* the keys .env may configure for the completion backends
ChatSettingsCases ==
    { {"openai_api_key", "gemini_api_key"}, {"openai_api_key"},
      {"gemini_api_key"}, {} }

ChatInit ==
    /\ now = TokenTTL
    /\ settings \in ChatSettingsCases
    /\ cached_token = None
    /\ token_expiry = None
    /\ SearchIdle /\ TokenIdle /\ ChunkIdle /\ CleanIdle /\ JobsIdle
    /\ chat_request = NoChatRequest
    /\ chat_pc = "idle"
    /\ lr_resources \in StoreCases
    /\ matched = << >>
    /\ search_results = << >>
    /\ resources = << >>
    /\ chat_log = << >>
    /\ lr_chat_messages = << >>
    /\ chat_response = NoChatResponse

\* what no step of chat changes
ChatFrame ==
    UNCHANGED <<cacheVars, searchVars, tokenVars, chunkVars, cleanVars,
                lr_resources, jobVars>>

\* the external call raised: lines 318-325
ChatRaise ==
    /\ chat_pc' = "done"
    /\ chat_response' = ChatFailed(chat_request)

\* POST /ai/chat up to its first external call: lines 108-147, 225-235
ChatReceive(req) ==
    /\ chat_pc = "idle"
    /\ chat_request' = req
    /\ IF chat_refusal(req, settings) # None
       THEN /\ chat_pc' = "done"
            /\ chat_response' = ChatError(req, "", chat_refusal(req, settings)[1])
       ELSE /\ chat_pc' = first_call(req)
            /\ UNCHANGED chat_response
    /\ UNCHANGED <<matched, search_results, resources, chat_log,
                   lr_chat_messages>>
    /\ ChatFrame

\* generate_embedding(query) returns or raises: line 42
ChatEmbed ==
    /\ chat_pc = "embed"
    /\ chat_log' = Append(chat_log, "embed")
    /\ \/ chat_pc' = "match" /\ UNCHANGED chat_response
       \/ ChatRaise
    /\ UNCHANGED <<chat_request, matched, search_results, resources,
                   lr_chat_messages>>
    /\ ChatFrame

\* the match_embeddings call returns chunks or raises: lines 45-55
ChatMatch ==
    /\ chat_pc = "match"
    /\ chat_log' = Append(chat_log, "match")
    /\ \/ \E answer \in MatchAnswers(chat_request.resource_ids) :
             /\ matched' = answer
             /\ search_results' = answer
             /\ chat_pc' = IF answer # << >> THEN "titles"
                           ELSE after_lookup(answer, chat_request)
             /\ UNCHANGED chat_response
       \/ ChatRaise /\ UNCHANGED <<matched, search_results>>
    /\ UNCHANGED <<chat_request, resources, lr_chat_messages>>
    /\ ChatFrame

\* the titles and urls of the chunks' resources are read: lines 58-72
ChatTitles ==
    /\ chat_pc = "titles"
    /\ chat_log' = Append(chat_log, "read_titles")
    /\ \/ /\ search_results' = with_resource(lr_resources, search_results)
          /\ chat_pc' = after_lookup(search_results', chat_request)
          /\ UNCHANGED chat_response
       \/ ChatRaise /\ UNCHANGED search_results
    /\ UNCHANGED <<chat_request, matched, resources, lr_chat_messages>>
    /\ ChatFrame

\* get_resource_content reads the content of the resources: lines 150-159,
\* 187-198 and 236
ChatReadContent ==
    /\ chat_pc = "read_content"
    /\ chat_log' = Append(chat_log, "read_content")
    /\ \/ LET found == get_resource_content(lr_resources,
                                            IdsOf(chat_request))
              summarize == chat_request.mode = "summarize"
              pgvector == chat_request.provider = "pgvector"
          IN  /\ resources' = found
              /\ search_results' =
                    IF pgvector /\ ~summarize
                    THEN search_results \o fallback_chunks(found)
                    ELSE search_results
              /\ IF pgvector /\ summarize /\ found = << >>
                 THEN /\ chat_pc' = "done"
                      /\ chat_response' =
                            ChatError(chat_request,
                                      default_model(chat_request),
                                      "No resources found or no content available")
                 ELSE /\ chat_pc' = "complete"
                      /\ UNCHANGED chat_response
       \/ ChatRaise /\ UNCHANGED <<resources, search_results>>
    /\ UNCHANGED <<chat_request, matched, lr_chat_messages>>
    /\ ChatFrame

\* the completion call returns or raises: lines 168-173, 218-222, 252, 271;
\* without a session_id chat returns
ChatComplete ==
    /\ chat_pc = "complete"
    /\ chat_log' = Append(chat_log, "complete")
    /\ \/ IF Truthy(chat_request.session_id)
          THEN /\ chat_pc' = "insert_user"
               /\ UNCHANGED chat_response
          ELSE /\ chat_pc' = "done"
               /\ chat_response' =
                     ChatSuccess(chat_request, "answer",
                                 chat_sources(chat_request, search_results,
                                              resources))
       \/ ChatRaise
    /\ UNCHANGED <<chat_request, matched, search_results, resources,
                   lr_chat_messages>>
    /\ ChatFrame

\* the user turn is inserted: lines 287-291
ChatInsertUser ==
    /\ chat_pc = "insert_user"
    /\ chat_log' = Append(chat_log, "insert_user")
    /\ \/ /\ lr_chat_messages' =
                Append(lr_chat_messages,
                       history_rows(chat_request, "answer", << >>)[1])
          /\ chat_pc' = "insert_assistant"
          /\ UNCHANGED chat_response
       \/ ChatRaise /\ UNCHANGED lr_chat_messages
    /\ UNCHANGED <<chat_request, matched, search_results, resources>>
    /\ ChatFrame

\* the assistant turn is inserted and chat returns: lines 294-316
ChatInsertAssistant ==
    /\ chat_pc = "insert_assistant"
    /\ chat_log' = Append(chat_log, "insert_assistant")
    /\ \/ LET sources == chat_sources(chat_request, search_results,
                                      resources)
          IN  /\ lr_chat_messages' =
                    Append(lr_chat_messages,
                           history_rows(chat_request, "answer", sources)[2])
              /\ chat_pc' = "done"
              /\ chat_response' = ChatSuccess(chat_request, "answer", sources)
       \/ ChatRaise /\ UNCHANGED lr_chat_messages
    /\ UNCHANGED <<chat_request, matched, search_results, resources>>
    /\ ChatFrame

ChatNext ==
    \/ \E req \in ChatRequests : ChatReceive(req)
    \/ ChatEmbed
    \/ ChatMatch
    \/ ChatTitles
    \/ ChatReadContent
    \/ ChatComplete
    \/ ChatInsertUser
    \/ ChatInsertAssistant

ChatSpec == ChatInit /\ [][ChatNext]_vars

\* the steps of a request that has been received: each is an external call
\* that returns or raises
ChatCalls ==
    \/ ChatEmbed
    \/ ChatMatch
    \/ ChatTitles
    \/ ChatReadContent
    \/ ChatComplete
    \/ ChatInsertUser
    \/ ChatInsertAssistant

\* every external call that chat awaits ends, by returning or by raising
ChatFairSpec == ChatSpec /\ WF_vars(ChatCalls)

(***************************************************************************)
(* routers/ai/embed.py: generate_resource_embeddings, followed from one    *)
(* external call to the next: the count and the delete on lr_embeddings,   *)
(* the read of lr_resources, generate_embeddings and the insert.  Each     *)
(* call returns or raises.                                                 *)
(***************************************************************************)
\* line 64: `request.resource_ids or [request.resource_id]`
EmbedIds(req) ==
    IF TruthyList(req.resource_ids) THEN req.resource_ids[1]
    ELSE << req.resource_id[1] >>

EmbedResult(id, title, n, status, error) ==
    [resource_id |-> id, title |-> title, chunks |-> n, status |-> status,
     error |-> error]

\* lines 186-193: the result of a resource whose processing raised in `op`
RaisedResult(id, op) ==
    EmbedResult(id, "", 0, "error", Some(op \o " failed"))

\* the number of results with the given status
CountStatus(results, status) ==
    Cardinality({n \in 1..Len(results) : results[n].status = status})

\* lines 42-61: the response to a request that is refused
EmbedRefused(message) ==
    [success |-> FALSE, processed |-> 0, successful |-> 0, skipped |-> 0,
     errors |-> 1, results |-> << >>, message |-> message]

\* lines 195-207
EmbedResponse(results) ==
    [success |-> TRUE, processed |-> Len(results),
     successful |-> CountStatus(results, "success"),
     skipped |-> CountStatus(results, "skipped"),
     errors |-> CountStatus(results, "error"),
     results |-> results, message |-> "Embedded"]

\* the rows of lr_embeddings of resource id
EmbeddingsOf(table, id) ==
    LET mine(row) == row.resource_id = id
    IN  SelectSeq(table, mine)

\* lines 132-134: delete().eq("resource_id", id)
delete_embeddings(table, id) ==
    LET others(row) == row.resource_id # id
    IN  SelectSeq(table, others)

\* lines 159-172: the records inserted for the chunks of resource id
embedding_records(id, parts) ==
    [n \in 1..Len(parts) |->
        [resource_id |-> id, chunk_index |-> n - 1, chunk_text |-> parts[n]]]

\* lines 67-70: the first call made for a resource
first_embed_call(req) == IF req.force THEN "read" ELSE "count"

\* lines 100-128: the text to embed, or the error that ends the processing
\* of the resource
text_to_embed(r, req) ==
    LET raw_content == OrElse(r.content, OrElse(r.description, ""))
        text_content == IF req.clean_data
                        THEN clean_content(raw_content, DefaultOptions)
                        ELSE raw_content
    IN  IF raw_content = "" \/ Len(raw_content) < MinContent
        THEN [error |-> Some("No content to embed (content too short or missing)"),
              text |-> ""]
        ELSE IF text_content = "" \/ Len(text_content) < MinContent
        THEN [error |-> Some("Content too short after cleaning"),
              text |-> ""]
        ELSE [error |-> None, text |-> text_content]

\* the rows of lr_resources: a resource with a content long enough, one
\* whose content is too short once its tags are stripped, and one with a
\* short description only; or no resource
EmbedStoreCases ==
    { << [id |-> "r1", title |-> "Roe", content |-> Some(Rep(MinContent)),
          description |-> None, url |-> "u1"],
         [id |-> "r2", title |-> "Doe",
          content |-> Some("<p>" \o Rep(MinContent - 3) \o "</p>"),
          description |-> None, url |-> "u2"],
         [id |-> "r3", title |-> "Poe", content |-> None,
          description |-> Some("Gamma"), url |-> "u3"] >>,
      << >> }

\* the rows of lr_embeddings before the request
StoredEmbeddings ==
    { << >>,
      << [resource_id |-> "r1", chunk_index |-> 0, chunk_text |-> "old"] >>,
      << [resource_id |-> "r1", chunk_index |-> 0, chunk_text |-> "old"],
         [resource_id |-> "r2", chunk_index |-> 0, chunk_text |-> "old"] >> }

EmbedRequests ==
    [resource_id : {None, Some("r1")},
     resource_ids : {None, Some(<< >>), Some(<<"r2", "r1">>),
                     Some(<<"r3", "r2">>)},
     force : BOOLEAN,
     clean_data : BOOLEAN]

EmbedInit ==
    /\ now = TokenTTL
    /\ settings \in {{"openai_api_key"}, {}}
    /\ cached_token = None
    /\ token_expiry = None
    /\ SearchIdle /\ TokenIdle
    /\ ChunkIdle /\ CleanIdle /\ CrawlIdle
    /\ chat_request = NoChatRequest
    /\ chat_pc = "idle"
    /\ lr_resources \in EmbedStoreCases
    /\ matched = << >>
    /\ search_results = << >>
    /\ resources = << >>
    /\ chat_log = << >>
    /\ lr_chat_messages = << >>
    /\ chat_response = NoChatResponse
    /\ embed_request = NoEmbedRequest
    /\ embed_pc = "idle"
    /\ embed_idx = 0
    /\ embed_chunks = << >>
    /\ embed_results = << >>
    /\ lr_embeddings \in StoredEmbeddings
    /\ embeddings_before = lr_embeddings
    /\ embed_response = NoEmbedResponse

\* what no step of generate_resource_embeddings changes
EmbedFrame ==
    UNCHANGED <<cacheVars, searchVars, tokenVars, chunkVars, cleanVars,
                chatVars, crawlVars, embeddings_before>>

\* the resource in process
EmbedId == EmbedIds(embed_request)[embed_idx]

\* a result is appended and the loop of line 67 goes on to the next
\* resource, or ends and the response is built
EmbedAdvance(result) ==
    /\ embed_results' = Append(embed_results, result)
    /\ embed_chunks' = << >>
    /\ IF embed_idx < Len(EmbedIds(embed_request))
       THEN /\ embed_idx' = embed_idx + 1
            /\ embed_pc' = first_embed_call(embed_request)
            /\ UNCHANGED embed_response
       ELSE /\ embed_pc' = "done"
            /\ embed_response' = EmbedResponse(embed_results')
            /\ UNCHANGED embed_idx

\* POST /ai/embed up to its first external call: lines 39-70
EmbedReceive(req) ==
    /\ embed_pc = "idle"
    /\ embed_request' = req
    /\ IF "openai_api_key" \notin settings
       THEN /\ embed_pc' = "done"
            /\ embed_response' = EmbedRefused("OpenAI API key not configured")
            /\ UNCHANGED embed_idx
       ELSE IF ~Truthy(req.resource_id) /\ ~TruthyList(req.resource_ids)
       THEN /\ embed_pc' = "done"
            /\ embed_response' =
                  EmbedRefused("resource_id or resource_ids required")
            /\ UNCHANGED embed_idx
       ELSE /\ embed_pc' = first_embed_call(req)
            /\ embed_idx' = 1
            /\ UNCHANGED embed_response
    /\ UNCHANGED <<embed_chunks, embed_results, lr_embeddings>>
    /\ EmbedFrame

\* the stored embeddings of the resource are counted: lines 70-82
EmbedCount ==
    /\ embed_pc = "count"
    /\ \/ LET count == Len(EmbeddingsOf(lr_embeddings, EmbedId))
          IN  IF count > 0
              THEN EmbedAdvance(EmbedResult(EmbedId, "", count, "skipped",
                                            None))
              ELSE /\ embed_pc' = "read"
                   /\ UNCHANGED <<embed_idx, embed_chunks, embed_results,
                                  embed_response>>
       \/ EmbedAdvance(RaisedResult(EmbedId, "count"))
    /\ UNCHANGED <<embed_request, lr_embeddings>>
    /\ EmbedFrame

\* the resource is read, its content cleaned and, without force, chunked:
\* lines 84-128 and 136-147.  For an id that has no row, single() raises
\* or returns no data.
EmbedRead ==
    /\ embed_pc = "read"
    /\ LET rows == {i \in 1..Len(lr_resources) : lr_resources[i].id = EmbedId}
           resource == lr_resources[CHOOSE i \in rows : TRUE]
           todo == text_to_embed(resource, embed_request)
           parts == chunk_text(todo.text, 1000, 100)
       IN  \/ /\ rows = {}
              /\ EmbedAdvance(EmbedResult(EmbedId, "", 0, "error",
                                          Some("Resource not found")))
           \/ /\ rows # {}
              /\ IF todo.error # None
                 THEN EmbedAdvance(EmbedResult(EmbedId, resource.title, 0,
                                               "error", todo.error))
                 ELSE IF embed_request.force
                 THEN /\ embed_pc' = "delete"
                      /\ embed_chunks' = parts
                      /\ UNCHANGED <<embed_idx, embed_results, embed_response>>
                 ELSE IF parts = << >>
                 THEN EmbedAdvance(EmbedResult(EmbedId, resource.title, 0,
                                               "error",
                                               Some("No chunks generated")))
                 ELSE /\ embed_pc' = "embed"
                      /\ embed_chunks' = parts
                      /\ UNCHANGED <<embed_idx, embed_results, embed_response>>
           \/ EmbedAdvance(RaisedResult(EmbedId, "read"))
    /\ UNCHANGED <<embed_request, lr_embeddings>>
    /\ EmbedFrame

\* with force, the stored embeddings of the resource are deleted: lines
\* 130-147
EmbedDelete ==
    /\ embed_pc = "delete"
    /\ \/ /\ lr_embeddings' = delete_embeddings(lr_embeddings, EmbedId)
          /\ IF embed_chunks = << >>
             THEN EmbedAdvance(EmbedResult(
                      EmbedId,
                      lr_resources[CHOOSE i \in 1..Len(lr_resources) :
                                      lr_resources[i].id = EmbedId].title,
                      0, "error", Some("No chunks generated")))
             ELSE /\ embed_pc' = "embed"
                  /\ UNCHANGED <<embed_idx, embed_chunks, embed_results,
                                 embed_response>>
       \/ /\ EmbedAdvance(RaisedResult(EmbedId, "delete"))
          /\ UNCHANGED lr_embeddings
    /\ UNCHANGED embed_request
    /\ EmbedFrame

\* generate_embeddings returns or raises: lines 149-156
EmbedGenerate ==
    /\ embed_pc = "embed"
    /\ \/ /\ embed_pc' = "insert"
          /\ UNCHANGED <<embed_idx, embed_chunks, embed_results,
                         embed_response>>
       \/ EmbedAdvance(RaisedResult(EmbedId, "generate_embeddings"))
    /\ UNCHANGED <<embed_request, lr_embeddings>>
    /\ EmbedFrame

\* the records are inserted: lines 158-184
EmbedInsert ==
    /\ embed_pc = "insert"
    /\ \/ /\ lr_embeddings' =
                lr_embeddings \o embedding_records(EmbedId, embed_chunks)
          /\ EmbedAdvance(EmbedResult(
                 EmbedId,
                 lr_resources[CHOOSE i \in 1..Len(lr_resources) :
                                 lr_resources[i].id = EmbedId].title,
                 Len(embed_chunks), "success", None))
       \/ /\ EmbedAdvance(RaisedResult(EmbedId, "insert"))
          /\ UNCHANGED lr_embeddings
    /\ UNCHANGED embed_request
    /\ EmbedFrame

EmbedNext ==
    \/ \E req \in EmbedRequests : EmbedReceive(req)
    \/ EmbedCount
    \/ EmbedRead
    \/ EmbedDelete
    \/ EmbedGenerate
    \/ EmbedInsert

EmbedSpec == EmbedInit /\ [][EmbedNext]_vars

(***************************************************************************)
(* routers/documents/crawl.py: crawl_sync, with start_crawl and            *)
(* get_crawl_status as it calls them.  Firecrawl answers a request with a  *)
(* body, with an error status, or not at all (the request raises).         *)
(***************************************************************************)
CrawlStatusResponse(success, job_id, status, error) ==
    [success |-> success, job_id |-> job_id, status |-> status,
     error |-> error]

CrawlResponse(success, job_id, status, total, error) ==
    [success |-> success, job_id |-> job_id, status |-> status,
     total |-> total, error |-> error]

\* lines 20-94: start_crawl
start_crawl(st, reply) ==
    IF "firecrawl_api_key" \notin st
    THEN CrawlStatusResponse(FALSE, None, None,
                             Some("Firecrawl API key not configured"))
    ELSE IF reply.kind = "http_error"
    THEN CrawlStatusResponse(FALSE, None, None,
                             Some("Firecrawl API error: HTTP 500"))
    ELSE IF reply.kind = "exception"
    THEN CrawlStatusResponse(FALSE, None, None,
                             Some("Failed to start crawl: error"))
    ELSE IF ~reply.success
    THEN CrawlStatusResponse(FALSE, None, None, reply.error)
    ELSE CrawlStatusResponse(TRUE, reply.id, Some("queued"), None)

\* lines 98-156: get_crawl_status
get_crawl_status(st, job_id, reply) ==
    IF "firecrawl_api_key" \notin st
    THEN CrawlResponse(FALSE, None, "error", 0,
                       Some("Firecrawl API key not configured"))
    ELSE IF reply.kind = "http_error"
    THEN CrawlResponse(FALSE, None, "error", 0,
                       Some("Failed to get crawl status: HTTP 500"))
    ELSE IF reply.kind = "exception"
    THEN CrawlResponse(FALSE, None, "error", 0,
                       Some("Failed to get crawl status: error"))
    ELSE CrawlResponse(TRUE, Some(job_id),
                       IF reply.status = None THEN "unknown"
                       ELSE reply.status[1],
                       reply.total, None)

\* line 211 with the division by poll_interval left out
max_polls_whole(t) == t

\* line 211: max_polls = timeout_seconds // poll_interval
max_polls(t) == t \div PollInterval

\* line 218: the statuses that end the polling
EndStatuses == {"completed", "failed", "error"}

\* line 223
timeout_error(t) ==
    "Timeout after " \o ToString(t) \o "s - partial results returned"

\* what Firecrawl may answer to POST /crawl
StartReplies ==
    { [kind |-> "ok", success |-> TRUE, id |-> Some("j1"), error |-> None],
      [kind |-> "ok", success |-> TRUE, id |-> None, error |-> None],
      [kind |-> "ok", success |-> FALSE, id |-> None,
       error |-> Some("Invalid url")],
      [kind |-> "ok", success |-> FALSE, id |-> None, error |-> None],
      [kind |-> "http_error", success |-> FALSE, id |-> None,
       error |-> None],
      [kind |-> "exception", success |-> FALSE, id |-> None,
       error |-> None] }

\* what Firecrawl may answer to GET /crawl/{job_id}
StatusReplies ==
    { [kind |-> "ok", status |-> Some("scraping"), total |-> 1],
      [kind |-> "ok", status |-> Some("completed"), total |-> 2],
      [kind |-> "ok", status |-> Some("failed"), total |-> 0],
      [kind |-> "ok", status |-> None, total |-> 0],
      [kind |-> "http_error", status |-> None, total |-> 0],
      [kind |-> "exception", status |-> None, total |-> 0] }

\* timeout_seconds is a query parameter of type int with no constraint
Timeouts == (-1)..MaxTimeout

CrawlInit ==
    /\ now = TokenTTL
    /\ settings \in {{"firecrawl_api_key"}, {}}
    /\ cached_token = None
    /\ token_expiry = None
    /\ SearchIdle /\ TokenIdle
    /\ ChunkIdle /\ CleanIdle /\ ChatIdle /\ EmbedIdle
    /\ CrawlIdle

\* what no step of crawl_sync changes
CrawlFrame ==
    UNCHANGED <<cacheVars, searchVars, tokenVars, chunkVars, cleanVars,
                chatVars, embedVars>>

\* POST /crawl/sync is called: line 190
CrawlSyncCall(t) ==
    /\ crawl_pc = "idle"
    /\ timeout_seconds' = t
    /\ crawl_pc' = "start"
    /\ UNCHANGED <<start_result, polled, polls, crawl_response>>
    /\ CrawlFrame

\* start_crawl returns: lines 198-211
CrawlStart ==
    /\ crawl_pc = "start"
    /\ \E reply \in StartReplies :
          LET r == start_crawl(settings, reply)
          IN  /\ start_result' = r
              /\ IF ~r.success \/ ~Truthy(r.job_id)
                 THEN /\ crawl_pc' = "done"
                      /\ crawl_response' =
                            CrawlResponse(FALSE, None, "error", 0,
                                Some(OrElse(r.error, "Failed to start crawl")))
                 ELSE /\ crawl_pc' = IF 0 < max_polls(timeout_seconds)
                                     THEN "poll" ELSE "final"
                      /\ UNCHANGED crawl_response
    /\ UNCHANGED <<timeout_seconds, polled, polls>>
    /\ CrawlFrame

\* one iteration of the loop, the sleep and the status query: lines 213-219
CrawlPoll ==
    /\ crawl_pc = "poll"
    /\ \E reply \in StatusReplies :
          LET result == get_crawl_status(settings, start_result.job_id[1],
                                         reply)
          IN  /\ polled' = Append(polled, result)
              /\ polls' = polls + 1
              /\ IF result.status \in EndStatuses
                 THEN /\ crawl_pc' = "done"
                      /\ crawl_response' = result
                 ELSE /\ crawl_pc' = IF polls' < max_polls(timeout_seconds)
                                     THEN "poll" ELSE "final"
                      /\ UNCHANGED crawl_response
    /\ UNCHANGED <<timeout_seconds, start_result>>
    /\ CrawlFrame

\* the status query after the loop: lines 221-224
CrawlFinal ==
    /\ crawl_pc = "final"
    /\ \E reply \in StatusReplies :
          LET final_result == get_crawl_status(settings,
                                               start_result.job_id[1], reply)
          IN  /\ polled' = Append(polled, final_result)
              /\ crawl_response' =
                    [final_result EXCEPT
                        !.error = Some(timeout_error(timeout_seconds))]
              /\ crawl_pc' = "done"
    /\ UNCHANGED <<timeout_seconds, start_result, polls>>
    /\ CrawlFrame

\* the calls crawl_sync awaits
CrawlCalls == CrawlStart \/ CrawlPoll \/ CrawlFinal

CrawlNext ==
    \/ \E t \in Timeouts : CrawlSyncCall(t)
    \/ CrawlStart
    \/ CrawlPoll
    \/ CrawlFinal

\* start_crawl and get_crawl_status return: their requests carry a timeout
\* of 30 seconds and the sleep of an iteration ends
CrawlSpec == CrawlInit /\ [][CrawlNext]_vars /\ WF_vars(CrawlCalls)

(***************************************************************************)
(* Properties.                                                             *)
(***************************************************************************)
Enabled == request.include

\* an entry of the response, read as the client reads it
Entry(s) == IF s \in DOMAIN response.results THEN Some(response.results[s])
            ELSE None

RECURSIVE SumReturned(_)
\* the sum of the counts of the adapters in S that returned a response
SumReturned(S) ==
    IF S = {} THEN 0
    ELSE LET s == CHOOSE x \in S : TRUE
         IN  (IF out[s].kind = "return" THEN out[s].count ELSE 0)
               + SumReturned(S \ {s})

\* C1: in the combined response, the entry of an enabled source whose
\* adapter raised has an empty result list and count 0, and the entry of
\* every other enabled source carries the results and the count that its own
\* adapter returned.
C1_FailureIsolated ==
    mode = "done" =>
        \A s \in Enabled :
            /\ out[s].kind = "raise" =>
                   Entry(s) = Some([results |-> << >>, count |-> 0])
            /\ out[s].kind = "return" =>
                   Entry(s) = Some([results |-> out[s].results,
                                    count |-> out[s].count])

C1_Witness ==
    /\ mode = "done"
    /\ \E s, t \in Enabled :
          /\ out[s].kind = "raise"
          /\ out[t].kind = "return" /\ out[t].count = MaxItems
          /\ response.results[s].count = 0
          /\ response.results[t].count = MaxItems

\* C2: total is the sum of the counts of the enabled adapters that returned
\* a response, adapters that raised adding 0 and equal results of two
\* sources counted twice; with no source enabled total is 0.
C2_TotalIsSum ==
    mode = "done" =>
        /\ response.total = SumReturned(Enabled)
        /\ Enabled = {} => response.total = 0

\* two sources returned the same result and both are counted
C2_Witness ==
    /\ mode = "done"
    /\ \E s, t \in Enabled :
          /\ s # t
          /\ out[s].kind = "return" /\ out[t].kind = "return"
          /\ out[s].count = 2 /\ out[t].count = 1
          /\ out[s].results[1] = out[t].results[1]
          /\ response.total = 3

\* C3: search_combined returns a response and never raises, whatever
\* toggles are set and whichever optional filters are left unset.
C3_NeverRaises == mode # "raised"

\* C4: the response has an entry for a source iff its toggle was set.
C4_EntryIffEnabled ==
    mode = "done" => \A s \in Sources : (Entry(s) # None) <=> (s \in Enabled)

C4_Witness ==
    /\ mode = "done"
    /\ Cardinality(Enabled) = MaxEnabled
    /\ \E s \in Enabled : out[s].kind = "raise" /\ Entry(s) # None
    /\ \E s \in Sources \ Enabled : Entry(s) = None

\* C5: the response is produced only after every enabled adapter call has
\* returned or raised, and a call that is still in flight can complete
\* whatever has become of the other calls.
C5_JoinsAll ==
    /\ mode = "done" => \A s \in Enabled : task[s] \in Finished
    /\ \A s \in Sources :
          task[s] = "awaiting" /\ mode = "gather" => ENABLED ProviderResponds(s)

\* one call has raised while another is still in flight
C5_Witness ==
    /\ mode = "gather"
    /\ \E s, t \in Enabled : task[s] = "raised" /\ task[t] = "awaiting"

\* the adapter call of source s has ended after the provider answered one
\* of its requests with a non-success status
RefusedBy(s) ==
    /\ task[s] \in Finished
    /\ answered[s].to # "none"
    /\ answered[s].status_code # 200

ErrorResponse(o) ==
    /\ o.kind = "return"
    /\ Truthy(o.error)
    /\ o.results = << >>
    /\ o.count = 0

CredentialsAbsent(s) ==
    CASE s = "google" -> ~google_credentials(settings)
      [] s = "youtube" -> ~youtube_credentials(settings)
      [] s = "unicourt" -> ~unicourt_credentials(settings)
      [] OTHER -> FALSE

\* C7 as stated: with its credentials absent an adapter returns a
\* SearchResponse with a configuration error and no results, and sends no
\* request to the provider.
C7_ConfigErrorReturned ==
    \A s \in Sources :
        task[s] # "none" /\ CredentialsAbsent(s) =>
            ErrorResponse(out[s]) /\ nsent[s] = 0

\* C7 as amended: with its credentials absent an adapter sends no request
\* to the provider; search_unicourt returns a SearchResponse with a
\* configuration error and no results, while search_google and
\* search_youtube raise an HTTPException with status 500.
C7_ConfigErrorNoRequest ==
    \A s \in Sources :
        task[s] # "none" /\ CredentialsAbsent(s) =>
            /\ nsent[s] = 0
            /\ IF s = "unicourt" THEN ErrorResponse(out[s])
               ELSE out[s].kind = "raise" /\ out[s].status_code = 500

C7_Witness ==
    /\ CredentialsAbsent("google") /\ task["google"] = "raised"
    /\ CredentialsAbsent("unicourt") /\ task["unicourt"] = "returned"
    /\ nsent["google"] = 0 /\ nsent["unicourt"] = 0

\* C8: every SearchResult produced by any adapter carries a non-empty url.
C8_UrlNonEmpty ==
    \A s \in Sources : \A i \in 1..Len(out[s].results) :
        out[s].results[i].url # ""

\* C9: no snippet in the output of any adapter is longer than 300
\* characters.
C9_SnippetAtMost300 ==
    \A s \in Sources : \A i \in 1..Len(out[s].results) :
        LET snippet == out[s].results[i].snippet
        IN  snippet # None => Len(snippet[1]) <= SnippetMax

\* C10: the number of results an adapter returns is at most request.limit.
C10_AtMostLimit ==
    \A s \in Sources :
        out[s].kind = "return" => Len(out[s].results) <= request.limit

(***************************************************************************)
(* Properties of the token cache (TokenSpec).                              *)
(***************************************************************************)
\* a token is cached and the clock is before its expiry
CacheFresh ==
    /\ Truthy(cached_token)
    /\ token_expiry # None
    /\ now < token_expiry[1]

\* C11: with credentials configured, a call of get_access_token that finds
\* a token cached and now < expiry returns that token, sends no token
\* request and leaves the cache alone; in every other case it sends exactly
\* one token request, and when the provider answers 200 it stores the token
\* of the answer, sets the expiry to now + 24 h and returns the token.
C11_CachedOrOneRequest ==
    [][\A c \in Callers :
         /\ (call[c].pc = "idle" /\ call'[c].pc # "idle"
                /\ unicourt_credentials(settings))
             => IF CacheFresh
                THEN /\ call'[c].pc = "done"
                     /\ call'[c].ret = cached_token
                     /\ call'[c].sent = 0
                     /\ cached_token' = cached_token
                     /\ token_expiry' = token_expiry
                ELSE /\ call'[c].pc = "awaiting"
                     /\ call'[c].sent = 1
         /\ (call[c].pc = "awaiting" /\ call'[c].pc = "done")
             => /\ call'[c].sent = 1
                /\ call'[c].data.status_code = 200
                   => /\ cached_token' =
                           OrOpt(call'[c].data.accessToken,
                                 call'[c].data.access_token)
                      /\ token_expiry' = Some(now + 24 * 60 * 60)
                      /\ call'[c].ret = cached_token'
      ]_vars

\* one call was served from the cache and another one refreshed it
C11_Witness ==
    \E c, d \in Callers :
        /\ call[c].pc = "done" /\ call[c].sent = 0 /\ Truthy(call[c].ret)
        /\ call[d].pc = "done" /\ call[d].sent = 1
        /\ call[d].data.status_code = 200 /\ Truthy(call[d].ret)
        /\ token_expiry = Some(now + TokenTTL)

\* every call of get_access_token has returned
AllDone == \A c \in Callers : call[c].pc = "done"

\* the provider answered every token request with a token
AllAnswered ==
    \A c \in Callers :
        call[c].sent > 0 =>
            /\ call[c].data.status_code = 200
            /\ Truthy(OrOpt(call[c].data.accessToken, call[c].data.access_token))

\* the tokens the provider has issued
Issued == {Some(Token(n)) : n \in 1..issued}

\* what holds of the cache and of the calls' results
RefreshedCache ==
    /\ Len(refreshes) >= 1
    /\ \A c \in Callers : call[c].ret \in Issued
    /\ cached_token = refreshes[Len(refreshes)].token
    /\ token_expiry # None
    /\ token_expiry[1] > now

\* C12 (under RaceSpec, whose callers start with credentials configured and
\* the cache empty or expired): when the provider answers every token
\* request with a token, then under every interleaving
\* of the callers, at the step that ends the last call at least one refresh
\* was performed, every call returned a token the provider issued, and the
\* cache holds the token written by the last refresh to complete together
\* with an expiry later than now.
C12_RacingRefreshes ==
    [][(~AllDone /\ AllDone' /\ AllAnswered') => RefreshedCache']_vars

\* two calls raced: both sent a token request before either was answered,
\* and the cache holds the token of the one answered last
C12_Witness ==
    /\ AllDone /\ AllAnswered
    /\ \A c \in Callers : call[c].sent = 1
    /\ Len(refreshes) = MaxCallers
    /\ cached_token = refreshes[Len(refreshes)].token
    /\ cached_token # refreshes[1].token

(***************************************************************************)
(* Properties of chunk_text (ChunkSpec).                                   *)
(***************************************************************************)
\* the precondition on the arguments
OverlapBelowSize == 0 <= overlap /\ overlap < chunk_size

\* C13: whenever 0 <= overlap < chunk_size, every iteration of the loop of
\* chunk_text moves the window start strictly forward, also an iteration
\* whose window a sentence end shortened, so the loop never repeats a start
\* and chunk_text terminates.
C13_StartAdvances ==
    [][(chunk_pc = "loop" /\ OverlapBelowSize)
          => (start' > start /\ chunk_pc' # "diverged")]_vars

\* C14: chunk_text returns the empty sequence for the empty text, and for
\* a text shorter than chunk_size exactly one element, the text with its
\* leading and trailing whitespace trimmed.
C14_ShortTextTrimmed ==
    chunk_pc = "done" =>
        /\ text = "" => chunks = << >>
        /\ (0 < Len(text) /\ Len(text) < chunk_size)
              => chunks = << strip(text) >>

\* the window-relative indices in the second half of window w at which a
\* sentence terminator starts
SecondHalfEnds(w) ==
    {i \in 0..(Len(w) - 2) :
        /\ 2 * i > chunk_size
        /\ \E k \in 1..Len(SentenceEnds) :
               SubSeq(w, i + 1, i + 2) = SentenceEnds[k]}

\* where the window that starts at st is to be cut by the nearest
\* terminator rule
NearestCut(st) ==
    LET w == PySlice(text, st, st + chunk_size)
        nearest == CHOOSE i \in SecondHalfEnds(w) :
                       \A j \in SecondHalfEnds(w) : j <= i
    IN  IF SecondHalfEnds(w) = {} THEN st + chunk_size
        ELSE st + nearest + 2

\* C15: a window that does not reach the end of the text ends right after
\* the sentence terminator nearest to the window end among those that
\* start at a window-relative index greater than chunk_size/2, and at
\* exactly chunk_size characters when there is none.
C15_CutAtNearestTerminator ==
    \A n \in 1..Len(windows) :
        windows[n].start + chunk_size < Len(text)
            => windows[n].end = NearestCut(windows[n].start)

\* character position p (from 0) of text lies in a window cut so far
InWindow(p) ==
    \E n \in 1..Len(windows) :
        /\ slice_index(windows[n].start, Len(text)) <= p
        /\ p < slice_index(windows[n].end, Len(text))

\* C16: for a text at least chunk_size long and 0 <= overlap < chunk_size,
\* every character position of the text lies in at least one of the windows
\* that chunk_text cuts.
C16_NoGap ==
    (chunk_pc \in {"done", "diverged"} /\ Len(text) >= chunk_size
        /\ OverlapBelowSize)
      => \A p \in 0..(Len(text) - 1) : InWindow(p)

(***************************************************************************)
(* Properties of clean_content (CleanSpec).                                *)
(***************************************************************************)
\* C17: under the default options clean_content is idempotent: applied to
\* its own result it returns that result, also for texts with a markdown
\* heading or list marker at the start of a line.
C17_Idempotent ==
    (clean_pc = 2 /\ options = DefaultOptions)
        => recleaned_content = cleaned_content

\* C18: under the default options clean_content turns the text
\* "<p>Hello   world</p>\n\n\n\nBye" into exactly "Hello world\n\nBye".
C18_Example ==
    (clean_pc >= 1 /\ options = DefaultOptions
        /\ original_content = "<p>Hello   world</p>\n\n\n\nBye")
        => cleaned_content = "Hello world\n\nBye"

\* s holds a tag: "<", then one or more characters other than ">", then ">"
HasTag(s) ==
    \E i, j \in 1..Len(s) :
        /\ i + 1 < j
        /\ SubSeq(s, i, i) = "<"
        /\ SubSeq(s, j, j) = ">"
        /\ \A k \in (i + 1)..(j - 1) : SubSeq(s, k, k) # ">"

\* C19: with remove_html on, whatever the other options are, what
\* clean_content returns holds no tag.
C19_NoTagLeft ==
    (clean_pc >= 1 /\ options.remove_html) => ~HasTag(cleaned_content)

\* a text with a tag and more was cleaned with remove_html on and the other
\* options away from their defaults, and something was left of it
C19_Witness ==
    /\ clean_pc >= 1
    /\ options.remove_html /\ options.remove_urls
    /\ ~options.normalize_whitespace /\ ~options.normalize_markdown
    /\ HasTag(original_content)
    /\ cleaned_content # ""
    /\ ~HasTag(cleaned_content)

(***************************************************************************)
(* Properties of the chat endpoint (ChatSpec).                             *)
(***************************************************************************)
\* the request is in qa or chat mode with the pgvector provider
VectorQA ==
    chat_request.mode \in {"qa", "chat"} /\ chat_request.provider = "pgvector"

\* the sources of the response are the chunks the vector lookup returned,
\* one for one and in their order
SourcesFromLookup ==
    /\ Len(chat_response.sources) = Len(matched)
    /\ \A i \in 1..Len(matched) :
          /\ chat_response.sources[i].resource_id = matched[i].resource_id
          /\ chat_response.sources[i].similarity = matched[i].similarity
          /\ chat_response.sources[i].snippet
                = Head200(matched[i].chunk_text) \o "..."

\* C20: in qa or chat mode with the pgvector provider, the content of the
\* resources is read (the fallback that re-chunks it) only after the vector
\* lookup returned zero matches for a request that supplied resource_ids;
\* when the lookup returned a match or no resource_ids were given, the
\* content is not read and the sources of the answer are those of the
\* lookup alone.
C20_FallbackOnlyWhenNoMatch ==
    VectorQA =>
        /\ InSeq("read_content", chat_log)
              => /\ InSeq("match", chat_log)
                 /\ matched = << >>
                 /\ TruthyList(chat_request.resource_ids)
        /\ (chat_pc = "done" /\ chat_response.success
              /\ (matched # << >> \/ ~TruthyList(chat_request.resource_ids)))
              => /\ ~InSeq("read_content", chat_log)
                 /\ SourcesFromLookup

\* a question about given resources was answered from the matches of the
\* vector lookup, without the fallback
C20_Witness ==
    /\ VectorQA
    /\ chat_pc = "done" /\ chat_response.success
    /\ TruthyList(chat_request.resource_ids)
    /\ Len(matched) >= 1
    /\ SourcesFromLookup
    /\ ~InSeq("read_content", chat_log)

\* the fallback of a qa or chat request has re-chunked the resources and the
\* completion has not been called yet
FallbackDone ==
    /\ VectorQA
    /\ chat_pc = "complete"
    /\ InSeq("read_content", chat_log)

\* the stored resources with the given id
Stored(id) == {i \in 1..Len(lr_resources) : lr_resources[i].id = id}

\* the text get_resource_content reads for a stored resource holds a
\* character that is not whitespace
HasText(r) == strip(OrElse(r.content, OrElse(r.description, ""))) # ""

\* retrieval returned a chunk sourced from resource id
ChunkFrom(id) ==
    \E k \in 1..Len(search_results) : search_results[k].resource_id = id

AllSentinel ==
    \A k \in 1..Len(search_results) : search_results[k].similarity = 50

\* C21 as stated: given resource_ids naming a resource and a vector lookup
\* that returned zero matches, retrieval returns at least one chunk sourced
\* from that resource, and every chunk it returns has similarity 0.5.
C21_FallbackYieldsChunk ==
    FallbackDone =>
        /\ \A n \in 1..Len(IdsOf(chat_request)) :
              Stored(IdsOf(chat_request)[n]) # {}
                  => ChunkFrom(IdsOf(chat_request)[n])
        /\ AllSentinel

\* C21 as amended: given resource_ids naming a stored resource whose content
\* (or, with no content, whose description) holds a character that is not
\* whitespace and a vector lookup that returned zero matches, retrieval
\* returns at least one chunk sourced from that resource, and every chunk it
\* returns has similarity 0.5.
C21_FallbackYieldsChunkOfText ==
    FallbackDone =>
        /\ \A n \in 1..Len(IdsOf(chat_request)) :
              (\E i \in Stored(IdsOf(chat_request)[n]) :
                   HasText(lr_resources[i]))
                  => ChunkFrom(IdsOf(chat_request)[n])
        /\ AllSentinel

\* the fallback returned chunks of two resources, one read from its content
\* and one from its description
C21_Witness ==
    /\ FallbackDone
    /\ matched = << >>
    /\ IdsOf(chat_request) = <<"r1", "r2">>
    /\ ChunkFrom("r1") /\ ChunkFrom("r2")
    /\ AllSentinel

\* search_similar_chunks has returned to chat and the fallback has not run
LookupReturned ==
    /\ VectorQA
    /\ chat_pc \in {"read_content", "complete"}
    /\ ~InSeq("read_content", chat_log)

\* C22: what search_similar_chunks returns holds at most `limit` chunks,
\* each with similarity >= `threshold`, in descending order of similarity,
\* and they are the chunks the similarity service returned, in its order.
C22_RankedAsReturned ==
    LookupReturned =>
        /\ Len(search_results) <= MatchCount
        /\ \A i \in 1..Len(search_results) :
              search_results[i].similarity >= MatchThreshold
        /\ \A i, j \in 1..Len(search_results) :
              i < j => search_results[i].similarity
                          >= search_results[j].similarity
        /\ Len(search_results) = Len(matched)
        /\ \A i \in 1..Len(matched) :
              /\ search_results[i].resource_id = matched[i].resource_id
              /\ search_results[i].chunk_index = matched[i].chunk_index
              /\ search_results[i].chunk_text = matched[i].chunk_text
              /\ search_results[i].similarity = matched[i].similarity

\* the lookup returned `limit` chunks, ranked, of an index that held more,
\* and the title of their resource was joined to them
C22_Witness ==
    /\ LookupReturned
    /\ InSeq("read_titles", chat_log)
    /\ Len(search_results) = MatchCount
    /\ search_results[1].similarity > search_results[MatchCount].similarity
    /\ search_results[1].resource_title = Some("Roe")

\* the request fails the validation of lines 113-129
Invalid(req) ==
    \/ req.mode \in {"qa", "chat"} /\ ~Truthy(req.message)
    \/ req.mode = "summarize" /\ ~TruthyList(req.resource_ids)

\* chat has returned success=false with the given error
FailedWith(error) ==
    /\ chat_pc = "done"
    /\ ~chat_response.success
    /\ chat_response.error = Some(error)

\* no external call and no history write has been made
NothingCalled == chat_log = << >> /\ lr_chat_messages = << >>

\* C23: a request in qa or chat mode without a message, or in summarize
\* mode without resource_ids, ends with success=false and an error message
\* before any embedding call, vector lookup, content read, completion call
\* or history write.
C23_InvalidRefused ==
    (chat_pc # "idle" /\ Invalid(chat_request)) =>
        /\ chat_pc = "done"
        /\ ~chat_response.success
        /\ Truthy(chat_response.error)
        /\ NothingCalled

\* a summarize request with an empty list of resource_ids was refused
C23_Witness ==
    /\ chat_request.mode = "summarize"
    /\ chat_request.resource_ids = Some(<< >>)
    /\ FailedWith("resource_ids required for summarize mode")
    /\ NothingCalled

\* the key of the backend the request selects is not configured
KeyAbsent ==
    \/ chat_request.provider = "pgvector" /\ "openai_api_key" \notin settings
    \/ chat_request.provider = "gemini" /\ "gemini_api_key" \notin settings

\* the configuration error that names the key of the selected backend
KeyError ==
    IF chat_request.provider = "pgvector" THEN "OpenAI API key not configured"
    ELSE "Gemini API key not configured"

\* C24 as stated: when the key of the selected backend is absent, chat
\* returns success=false with the configuration error naming that key, and
\* no content read, embedding call, vector lookup, completion call or
\* history write has been made.
C24_KeyAbsentRefused ==
    (chat_pc # "idle" /\ KeyAbsent) => FailedWith(KeyError) /\ NothingCalled

\* C24 as amended: when the key of the selected backend is absent, chat
\* returns success=false and makes no content read, embedding call, vector
\* lookup, completion call or history write; the error is the configuration
\* error naming that key when the request passes the validation of its
\* message and resource_ids, which is made first, and the validation error
\* otherwise.
C24_KeyAbsentRefusedAfterValidation ==
    (chat_pc # "idle" /\ KeyAbsent) =>
        /\ chat_pc = "done"
        /\ ~chat_response.success
        /\ NothingCalled
        /\ IF Invalid(chat_request)
           THEN chat_response.error \in
                   {Some("Message is required for chat/qa modes"),
                    Some("resource_ids required for summarize mode")}
           ELSE chat_response.error = Some(KeyError)

\* a valid gemini request was refused for its key while the OpenAI key was
\* configured
C24_Witness ==
    /\ chat_request.provider = "gemini"
    /\ settings = {"openai_api_key"}
    /\ ~Invalid(chat_request)
    /\ FailedWith("Gemini API key not configured")
    /\ NothingCalled

\* op is followed by next somewhere in the log of the calls
Before(op, next) ==
    \E i, j \in 1..Len(chat_log) :
        i < j /\ chat_log[i] = op /\ chat_log[j] = next

\* C25: history rows are written only when a session_id was supplied and
\* only after the completion call returned, the row of the user turn before
\* the row of the assistant turn; a request whose completion failed writes
\* no history row.
C25_HistoryAfterCompletion ==
    /\ lr_chat_messages # << >> =>
          /\ Truthy(chat_request.session_id)
          /\ Before("complete", "insert_user")
          /\ Len(lr_chat_messages) <= 2
          /\ lr_chat_messages[1].role = "user"
          /\ Len(lr_chat_messages) = 2 =>
                /\ lr_chat_messages[2].role = "assistant"
                /\ Before("insert_user", "insert_assistant")
    /\ (chat_pc = "done" /\ ~chat_response.success
           /\ chat_log # << >>
           /\ chat_log[Len(chat_log)] \in {"embed", "match", "read_titles",
                                            "read_content", "complete"})
          => lr_chat_messages = << >>

\* both turns of a request with a session_id were stored
C25_Witness ==
    /\ chat_pc = "done" /\ chat_response.success
    /\ chat_log[Len(chat_log)] = "insert_assistant"
    /\ Len(lr_chat_messages) = 2
    /\ lr_chat_messages[1].role = "user"
    /\ lr_chat_messages[2].role = "assistant"
    /\ lr_chat_messages[2].sources # << >>

\* the response is of one of the two terminal states
TerminalResponse ==
    IF chat_response.success
    THEN chat_response.error = None /\ chat_response.response # None
    ELSE Truthy(chat_response.error)

\* C26 (under ChatFairSpec, in which every external call ends): chat ends
\* in one of its two terminal states on every path: every request received
\* is answered, whatever call raises the answer is a ChatResponse with
\* success=false and a non-empty error, and a ChatResponse with success=true
\* has no error.
C26_AlwaysAResponse ==
    /\ [](chat_pc = "done" => TerminalResponse)
    /\ (chat_pc # "idle") ~> (chat_pc = "done")

\* a history write raised after the completion had returned
C26_Witness ==
    /\ chat_pc = "done"
    /\ chat_log # << >>
    /\ chat_log[Len(chat_log)] = "insert_user"
    /\ lr_chat_messages = << >>
    /\ ~chat_response.success
    /\ Truthy(chat_response.error)

\* C27: once chat has returned, the stored history consists of complete
\* pairs, a user turn followed by the assistant turn of the same request,
\* and a request that returned success=false has left no row.
C27_CompletePairs ==
    chat_pc = "done" =>
        /\ \A i \in 1..Len(lr_chat_messages) :
              lr_chat_messages[i].role = "user" =>
                  /\ i < Len(lr_chat_messages)
                  /\ lr_chat_messages[i + 1].role = "assistant"
                  /\ lr_chat_messages[i + 1].session_id
                        = lr_chat_messages[i].session_id
        /\ ~chat_response.success => lr_chat_messages = << >>

(***************************************************************************)
(* Properties of the token cache, continued (TokenSpec).                   *)
(***************************************************************************)
\* C28: when the provider answers the token request with a status other
\* than 200, get_access_token returns no token and leaves the cached token
\* and its expiry as they were; and whenever the cache holds a token it
\* holds an expiry too.
C28_FailedRefreshKeepsCache ==
    /\ [](cached_token # None => token_expiry # None)
    /\ [][\A c \in Callers :
            (call[c].pc = "awaiting" /\ call'[c].pc = "done"
                /\ call'[c].data.status_code # 200)
              => /\ call'[c].ret = None
                 /\ cached_token' = cached_token
                 /\ token_expiry' = token_expiry
         ]_vars

\* a refresh was refused while an expired token was cached, and the token
\* and its expiry are still there
C28_Witness ==
    \E c \in Callers :
        /\ call[c].pc = "done" /\ call[c].sent = 1
        /\ call[c].data.status_code # 200
        /\ call[c].ret = None
        /\ Truthy(cached_token)
        /\ token_expiry # None
        /\ token_expiry[1] <= now

(***************************************************************************)
(* Properties of generate_resource_embeddings (EmbedSpec).                 *)
(***************************************************************************)
\* the processing of the resource of this result was ended by
\* generate_embeddings or by the insert raising
FailedRegenerating(result) ==
    result.error \in {Some("generate_embeddings failed"),
                      Some("insert failed")}

\* C29: with force=true, when regenerating the embeddings of a resource
\* fails because generate_embeddings or the insert raises, the embeddings
\* that were stored for that resource before the request are still stored
\* afterwards, and the result of the resource has status "error".
C29_ForceKeepsStoredOnFailure ==
    (embed_pc = "done" /\ embed_request.force) =>
        \A n \in 1..Len(embed_results) :
            FailedRegenerating(embed_results[n]) =>
                /\ embed_results[n].status = "error"
                /\ \A i \in 1..Len(embeddings_before) :
                      embeddings_before[i].resource_id
                            = embed_results[n].resource_id
                          => InSeq(embeddings_before[i], lr_embeddings)

(***************************************************************************)
(* Properties of crawl_sync (CrawlSpec).                                   *)
(***************************************************************************)
\* start_crawl returned a job
Started == start_result.success /\ Truthy(start_result.job_id)

\* what crawl_sync has done and what it returns, for a loop of at most
\* `limit` polls
CrawlOutcome(limit) ==
    /\ polls <= limit
    /\ crawl_pc = "done" =>
          IF ~Started
          THEN /\ polled = << >>
               /\ polls = 0
               /\ ~crawl_response.success
               /\ crawl_response.status = "error"
               /\ Truthy(crawl_response.error)
          ELSE IF \E i \in 1..polls : polled[i].status \in EndStatuses
          THEN /\ Len(polled) = polls
               /\ \A i \in 1..(polls - 1) : polled[i].status \notin EndStatuses
               /\ crawl_response = polled[polls]
          ELSE /\ Len(polled) = polls + 1
               /\ crawl_response =
                     [polled[polls + 1] EXCEPT
                         !.error = Some(timeout_error(timeout_seconds))]

\* C30 as stated: crawl_sync always terminates; after a successful start it
\* polls the status at most timeout_seconds // 2 times in its loop, returns
\* the result of the first poll whose status is "completed", "failed" or
\* "error", and if no poll reached such a status makes exactly one more
\* status query and returns its result with a timeout error; when the start
\* fails it returns an error result without polling.
C30_TerminatesWithinPolls ==
    /\ [](crawl_pc \notin {"idle", "start"}
             => CrawlOutcome(timeout_seconds \div 2))
    /\ (crawl_pc # "idle") ~> (crawl_pc = "done")

\* C30 as amended: the same, with the loop polling at most
\* timeout_seconds // 2 times when timeout_seconds is 0 or more and not at
\* all when it is negative.
C30_TerminatesWithinPollsOrNone ==
    /\ [](crawl_pc \notin {"idle", "start"}
             => CrawlOutcome(IF timeout_seconds < 0 THEN 0
                             ELSE timeout_seconds \div 2))
    /\ (crawl_pc # "idle") ~> (crawl_pc = "done")

\* the loop made all its polls without an end status, and the query after
\* it was returned with the timeout error
C30_Witness ==
    /\ crawl_pc = "done"
    /\ Started
    /\ polls = timeout_seconds \div 2
    /\ polls >= 2
    /\ Len(polled) = polls + 1
    /\ crawl_response.error = Some(timeout_error(timeout_seconds))

====
